---- MODULE Spec2Model ----
(***************************************************************************)
(* Zombie Race (a2_n9424342.c): the game loop of a Teensy/LCD driving      *)
(* game, as a state machine.                                               *)
(*                                                                         *)
(* Every C global is a variable of the same name (the seven controls are   *)
(* gathered in the functions state, prev_state and history, indexed by the *)
(* control's name).  A C function is an operator of the same name from a   *)
(* record of all the globals to the SET of records it may leave behind:    *)
(* the set has one element unless the function calls rand().  Sequencing   *)
(* of C statements is LET, or Bind over every outcome of the previous one. *)
(*                                                                         *)
(* Numbers.  speed is a double that only ever moves by the rates of        *)
(* player_speed_input; it is kept exactly, in units of 1/SPEED_SCALE.      *)
(* speed_counter accumulates speed/SPEED_FACTOR and is kept in units of    *)
(* 1/(SPEED_SCALE*SPEED_FACTOR).  fuel and the sprite coordinates are      *)
(* doubles that only ever hold integers.  The uint8_t and uint16_t         *)
(* counters wrap.                                                          *)
(***************************************************************************)
EXTENDS Integers, Sequences, FiniteSets, TLC

(***************************************************************************)
(* Program constants.                                                      *)
(***************************************************************************)
LCD_X == 84
LCD_Y == 48
DASHBOARD_BORDER_X == 26
SPEED_THRESH == 8
SPEED_FACTOR == 8
SPEED_MAX == 10
SPEED_OFFROAD_MAX == 3
ROAD_LEFT == 0
ROAD_RIGHT == 1
ROAD_STRAIGHT == 2
ROAD_CURVE_MIN == 1
ROAD_CURVE_MAX == 3
ROAD_SECTION_MIN == 15
ROAD_SECTION_MAX == 35
FUEL_FACTOR == 3
FUEL_MAX == 100
FUEL_STATION_MIN == 140
FUEL_STAION_MAX == 180
NUM_TERRAIN == 10
NUM_TERRAIN_TYPES == 2
NUM_HAZARD == 2
NUM_HAZARD_TYPES == 2
HAZARD_SPAWN_CHANCE == 15
START_SCREEN == 1
GAME_SCREEN == 2
GAMEOVER_SCREEN == 3
road_width == 16
car_width == 4
car_height == 5
fuel_station_width == 8
fuel_station_height == 8
FINISH_LINE_START == 250
CONDITION_START == 100
mask == 63
DEBOUNCE_N == 6
RAND_MAX == 32767
SRAND_SEED == 100
ADC_MAX == 1023
ADC_RANGE == 1024

\* speed is held as speed * SPEED_SCALE: every rate of player_speed_input
\* (10/40, 3/120, 10/90, 3/75, 10/80, 1/30, 1/20) is a whole number of 1/1800.
SPEED_SCALE == 1800

Controls ==
  {"button_left", "button_right", "stick_centre", "stick_left",
   "stick_right", "stick_up", "stick_down"}

\* The order in which ISR(TIMER0_OVF_vect) samples, and update() copies, the controls.
ControlOrder ==
  <<"button_left", "button_right", "stick_centre", "stick_left",
    "stick_right", "stick_up", "stick_down">>

U8(x) == x % 256
U16(x) == x % 65536

Min(a, b) == IF a < b THEN a ELSE b
Max(a, b) == IF a > b THEN a ELSE b

(***************************************************************************)
(* The state.                                                              *)
(***************************************************************************)
VARIABLES
  state, prev_state, history,          \* *_state, prev_*_state, *_history
  condition, fuel, speed, distance, finish_line, distance_counter,
  speed_counter, game_over_loss,
  game_timer_counter, game_paused, loop_counter,
  player,
  road, road_counter, road_curve, road_direction, road_section_length,
  terrain, hazard,
  fuel_station, fuel_station_counter, refuelling,
  game_screen,
  rand_next,     \* the C library generator's state (srand, rand)
  rand_free,     \* the rand() call sites whose outcome is left open
  placed,        \* the sprites re-placed by the latest game step or setup,
                 \* each with the pools, the station and the road as they
                 \* stood then
  draws,         \* the x draws of the latest game step or setup: the call
                 \* site and the n of its rand() % n
  rolls,         \* the respawn rolls of the latest game step: the hazard's
                 \* index and the value of rand() % 100
  usb_out,       \* the latest message written to the USB serial line: its
                 \* first byte, its second byte and the characters after
  usb_serial,    \* the host's end of the serial line: the bytes written by
                 \* the game that the host has not read yet
  host,          \* the host program inside process(): where it is, its
                 \* locals code, num_lines and cnt, and the slots of data
                 \* that fgets has written
  TCNT0,         \* the count of timer 0, which overflows into TIMER0_OVF_vect
  main_t,        \* main's local t, in counts of timer 0
  pins,          \* the level of each control's pin at the last TIMER0 overflow
  pot0,          \* the speed potentiometer, as adc_read(0) returns it
  pc,            \* where the main loop is
  raw_samples,   \* per control, the raw samples read so far (the last DEBOUNCE_N)
  brake_updates, \* how many updates in a row have run player_speed_input with
                 \* the brake held, counted up to MaxBrakeCount
  last,          \* the operation that produced this state
  ops            \* how many operations the specification has run

vars ==
  <<state, prev_state, history, condition, fuel, speed, distance, finish_line,
    distance_counter, speed_counter, game_over_loss, game_timer_counter,
    game_paused, loop_counter, player, road, road_counter, road_curve,
    road_direction, road_section_length, terrain, hazard, fuel_station,
    fuel_station_counter, refuelling, game_screen, rand_next, rand_free,
    placed, draws, rolls, usb_out, usb_serial, host, TCNT0, main_t, pins,
    pot0, pc, raw_samples, brake_updates,
    last, ops>>

\* The globals, gathered for the operators that model the C functions.
Cur ==
  [state |-> state, prev_state |-> prev_state, history |-> history,
   condition |-> condition, fuel |-> fuel, speed |-> speed,
   distance |-> distance, finish_line |-> finish_line,
   distance_counter |-> distance_counter, speed_counter |-> speed_counter,
   game_over_loss |-> game_over_loss,
   game_timer_counter |-> game_timer_counter, game_paused |-> game_paused,
   loop_counter |-> loop_counter, player |-> player,
   road |-> road, road_counter |-> road_counter, road_curve |-> road_curve,
   road_direction |-> road_direction,
   road_section_length |-> road_section_length,
   terrain |-> terrain, hazard |-> hazard, fuel_station |-> fuel_station,
   fuel_station_counter |-> fuel_station_counter, refuelling |-> refuelling,
   game_screen |-> game_screen, rand_next |-> rand_next,
   rand_free |-> rand_free, placed |-> placed, draws |-> draws,
   rolls |-> rolls, usb_out |-> usb_out, usb_serial |-> usb_serial,
   host |-> host]

\* The globals take the values of record t.
Commit(t) ==
  /\ state' = t.state
  /\ prev_state' = t.prev_state
  /\ history' = t.history
  /\ condition' = t.condition
  /\ fuel' = t.fuel
  /\ speed' = t.speed
  /\ distance' = t.distance
  /\ finish_line' = t.finish_line
  /\ distance_counter' = t.distance_counter
  /\ speed_counter' = t.speed_counter
  /\ game_over_loss' = t.game_over_loss
  /\ game_timer_counter' = t.game_timer_counter
  /\ game_paused' = t.game_paused
  /\ loop_counter' = t.loop_counter
  /\ player' = t.player
  /\ road' = t.road
  /\ road_counter' = t.road_counter
  /\ road_curve' = t.road_curve
  /\ road_direction' = t.road_direction
  /\ road_section_length' = t.road_section_length
  /\ terrain' = t.terrain
  /\ hazard' = t.hazard
  /\ fuel_station' = t.fuel_station
  /\ fuel_station_counter' = t.fuel_station_counter
  /\ refuelling' = t.refuelling
  /\ game_screen' = t.game_screen
  /\ rand_next' = t.rand_next
  /\ rand_free' = t.rand_free
  /\ placed' = t.placed
  /\ draws' = t.draws
  /\ rolls' = t.rolls
  /\ usb_out' = t.usb_out
  /\ usb_serial' = t.usb_serial
  /\ host' = t.host

\* Every outcome of F from every state of SS: the C statement sequence "SS; F".
Bind(SS, F(_)) == UNION {F(s) : s \in SS}

\* A Sprite as sprite_init(&sprite, x, y, width, height, bitmap) leaves it.
sprite_init(x, y, width, height) ==
  [x |-> x, y |-> y, width |-> width, height |-> height]

(***************************************************************************)
(* main() up to the loop: the statics are zero, teensy_setup() starts the  *)
(* timers, srand(100), change_screen(START_SCREEN), loop_counter = 0.      *)
(***************************************************************************)
Boot ==
  [state |-> [c \in Controls |-> 0],
   prev_state |-> [c \in Controls |-> 0],
   history |-> [c \in Controls |-> 0],
   condition |-> 0, fuel |-> 0, speed |-> 0, distance |-> 0,
   finish_line |-> 0, distance_counter |-> 0, speed_counter |-> 0,
   game_over_loss |-> FALSE,
   game_timer_counter |-> 0, game_paused |-> 0, loop_counter |-> 0,
   player |-> sprite_init(0, 0, 0, 0),
   road |-> [y \in 0..(LCD_Y - 1) |-> 0],
   road_counter |-> 0, road_curve |-> 0, road_direction |-> 0,
   road_section_length |-> 0,
   terrain |-> [i \in 0..(NUM_TERRAIN - 1) |-> sprite_init(0, 0, 0, 0)],
   hazard |-> [i \in 0..(NUM_HAZARD - 1) |-> sprite_init(0, 0, 0, 0)],
   fuel_station |-> sprite_init(0, 0, 0, 0),
   fuel_station_counter |-> 0, refuelling |-> FALSE,
   game_screen |-> START_SCREEN,
   rand_next |-> SRAND_SEED,
   rand_free |-> {},
   placed |-> {},
   draws |-> {},
   rolls |-> {},
   usb_out |-> [command |-> 0, line_num |-> 0, text |-> << >>],
   usb_serial |-> << >>,
    host |-> [at |-> "code", code |-> 0, num_lines |-> 0, cnt |-> 0,
             data |-> {}, mode |-> ""]]

(***************************************************************************)
(* rand().  srand(100) seeds the C library's generator and nothing else    *)
(* reseeds it, so the program's draws are one fixed stream; rand_next is   *)
(* the generator's state and do_rand its step (avr-libc's rand).  A call   *)
(* site named in rand_free is left open instead: its draw is any value of  *)
(* its range.  A draw is a record [v |-> the value, s |-> the state after]. *)
(***************************************************************************)
do_rand(x) ==
  LET x0 == IF x = 0 THEN 123459876 ELSE x
      hi == x0 \div 127773
      lo == x0 % 127773
      y  == (16807 * lo) - (2836 * hi)
  IN  IF y < 0 THEN y + 2147483647 ELSE y

\* rand() % n at call site `site`, n >= 1.
Rand(s, site, n) ==
  LET nx == do_rand(s.rand_next)
      s2 == [s EXCEPT !.rand_next = nx]
  IN  IF site \in s.rand_free
        THEN {[v |-> k, s |-> s2] : k \in 0..(n - 1)}
        ELSE {[v |-> (nx % (RAND_MAX + 1)) % n, s |-> s2]}

\* A comparison of a roll with its limit that lets the limit itself pass.
roll_below_or_at(roll, limit) == roll <= limit

\* The test hazard_step makes of its roll.
roll_below(roll, limit) == roll < limit

\* rand() % n < limit at call site `site`: the roll and the outcome of the
\* test.  An open site takes the two values on either side of the limit.
RandBelow(s, site, n, limit) ==
  LET nx == do_rand(s.rand_next)
      s2 == [s EXCEPT !.rand_next = nx]
      open == {k \in {limit - 1, limit} : k >= 0 /\ k < n}
      range == IF site \in s.rand_free THEN open
               ELSE {(nx % (RAND_MAX + 1)) % n}
  IN  {[roll |-> k, v |-> roll_below(k, limit), s |-> s2] : k \in range}

\* What rand() % 0 may leave: the C standard leaves it undefined; the AVR
\* division routine returns the dividend, any value of 0..RAND_MAX.
UndefinedRemainders == {0, 1, 16, 57, RAND_MAX}

\* rand() % (max_x + 1 - min_x) + min_x, the x draw of terrain_reset and hazard_reset.
DrawX(s, site, min_x, max_x) ==
  LET n == max_x + 1 - min_x
      s1 == [s EXCEPT !.draws = @ \cup {[site |-> site, n |-> n]}]
  IN  IF n >= 1
        THEN {[v |-> d.v + min_x, s |-> d.s] : d \in Rand(s1, site, n)}
        ELSE {[v |-> r + min_x, s |-> [s1 EXCEPT !.rand_next = do_rand(s.rand_next)]] :
                r \in UndefinedRemainders}

(***************************************************************************)
(* Bounds and collisions.                                                  *)
(***************************************************************************)
in_bounds(x, y) ==
  IF (x <= DASHBOARD_BORDER_X) \/ (x > LCD_X - 1) THEN FALSE
  ELSE IF (y <= 1) \/ (y > LCD_Y - 1) THEN FALSE
  ELSE TRUE

\* check_sprite_collided_pixel returns true: the boxes decide.
check_sprite_collided(sprite1, sprite2) ==
  /\ ~((sprite1.x + sprite1.width <= sprite2.x) \/ (sprite1.x >= sprite2.x + sprite2.width))
  /\ ~((sprite1.y + sprite1.height < sprite2.y) \/ (sprite1.y > sprite2.y + sprite2.height))

check_collision(s, sprite) ==
  \/ \E i \in 0..(NUM_TERRAIN - 1) : check_sprite_collided(sprite, s.terrain[i])
  \/ \E i \in 0..(NUM_HAZARD - 1) : check_sprite_collided(sprite, s.hazard[i])
  \/ check_sprite_collided(sprite, s.fuel_station)

\* road[(int)round(sprite.y)]: reading outside road[] is undefined; the model
\* reads 0 there (the player, the only sprite passed, sits on row LCD_Y - 7).
RoadAt(s, y) == IF y \in 0..(LCD_Y - 1) THEN s.road[y] ELSE 0

offroad(s, sprite) ==
  IF sprite.x < RoadAt(s, sprite.y) THEN TRUE
  ELSE IF (sprite.x + sprite.width - 1) > (RoadAt(s, sprite.y) + road_width) THEN TRUE
  ELSE FALSE

(***************************************************************************)
(* The road.                                                               *)
(***************************************************************************)
\* road[0] = x alone, the rows below left where they were.
road_shift_none(rd, x) == [y \in 0..(LCD_Y - 1) |-> IF y = 0 THEN x ELSE rd[y]]

\* The memmove of road_step and the new top piece:
\* memmove(&road[1], &road[0], LCD_Y-1) followed by road[0] = x.
road_shift(rd, x) == [y \in 0..(LCD_Y - 1) |-> IF y = 0 THEN x ELSE rd[y - 1]]

\* A horizontal move of two columns per step.
road_dx_wide(direction) ==
  IF direction = ROAD_LEFT THEN -2 ELSE IF direction = ROAD_RIGHT THEN 2 ELSE 0

\* The switch on road_direction: the horizontal move of the new road piece.
road_dx(direction) ==
  IF direction = ROAD_STRAIGHT THEN 0
  ELSE IF direction = ROAD_LEFT THEN -1
  ELSE IF direction = ROAD_RIGHT THEN 1
  ELSE 0

\* A move condition without the screen-edge conjuncts.
road_in_bounds_open(x) == TRUE

\* The two screen-edge conjuncts of the move condition.
road_in_bounds(x) ==
  (x + road_width < LCD_X - 1) /\ (x > DASHBOARD_BORDER_X)

\* A curve that lets the road move one step sooner.
curve_passed_soon(counter, curve) == counter >= curve

\* The third conjunct of the move condition: road_counter > road_curve.
curve_passed(counter, curve) == counter > curve

\* A section that ends one step early.
section_over_early(length) == (length <= 1) \/ (length > ROAD_SECTION_MAX)

\* The test that ends a section: the length has run down to 0, or has
\* wrapped past 0.
section_over(length) == (length = 0) \/ (length > ROAD_SECTION_MAX)

road_step(s) ==
  LET counter == U8(s.road_counter + 1)
      x  == s.road[0]
      dx == road_dx(s.road_direction)
      move == road_in_bounds(x + dx) /\ curve_passed(counter, s.road_curve)
      s1 == [s EXCEPT !.road_counter = IF move THEN 0 ELSE counter,
                      !.road = road_shift(s.road, IF move THEN U8(x + dx) ELSE x),
                      !.road_section_length = U8(@ - 1)]
  IN  IF section_over(s1.road_section_length)
        THEN UNION {UNION {
               {[d3.s EXCEPT
                   !.road_direction = d1.v,
                   !.road_curve = d2.v + ROAD_CURVE_MIN,
                   !.road_section_length = d3.v + ROAD_SECTION_MIN,
                   !.road_counter = 0] :
                 d3 \in Rand(d2.s, "road_section", ROAD_SECTION_MAX + 1 - ROAD_SECTION_MIN)} :
               d2 \in Rand(d1.s, "road_curve", ROAD_CURVE_MAX + 1 - ROAD_CURVE_MIN)} :
               d1 \in Rand(s1, "road_direction", 2)}
        ELSE {s1}

(***************************************************************************)
(* Terrain and hazards.                                                    *)
(***************************************************************************)
\* terrain_image[type] and hazard_image[type], as the *_image_setup functions fill them.
terrain_image(type) ==
  IF type = 0 THEN [width |-> 8, height |-> 5] ELSE [width |-> 5, height |-> 4]

hazard_image(type) ==
  IF type = 0 THEN [width |-> 5, height |-> 3] ELSE [width |-> 5, height |-> 2]

\* The return of terrain_reset and hazard_reset, noted in placed.
Placed(s, pool, index) ==
  [s EXCEPT !.placed = @ \cup
     {[pool |-> pool, index |-> index, terrain |-> s.terrain,
       hazard |-> s.hazard, fuel_station |-> s.fuel_station, road |-> s.road]}]

\* terrain_reset with the collision test left out: the sprite stays where drawn.
terrain_place_unchecked(s, index, x, y, width, height) ==
  Placed([s EXCEPT !.terrain[index] = sprite_init(x, y, width, height)],
         "terrain", index)

\* The tail of terrain_reset: the sprite takes its place and is moved below the
\* screen if it collides with another terrain or with the fuel station.
terrain_place(s, index, x, y, width, height) ==
  LET sp == sprite_init(x, y, width, height)
      collision ==
        \/ \E i \in 0..(NUM_TERRAIN - 1) :
             i # index /\ check_sprite_collided(sp, s.terrain[i])
        \/ check_sprite_collided(sp, s.fuel_station)
      s1 == [s EXCEPT !.terrain[index] =
               IF collision THEN [sp EXCEPT !.y = LCD_Y + 1] ELSE sp]
  IN  Placed(s1, "terrain", index)

terrain_reset(s, index, y_bot) ==
  UNION {
    LET width == terrain_image(dt.v).width
        height == terrain_image(dt.v).height
        padding == height \div ROAD_CURVE_MIN
        y == y_bot - height
        rd == dt.s.road[y_bot]
    IN  UNION {
          LET left == IF dl.v # 0
                        THEN ~(rd - width - padding <= DASHBOARD_BORDER_X)
                        ELSE rd + road_width + width + padding >= LCD_X - 1
              min_x == IF left THEN DASHBOARD_BORDER_X + 1
                       ELSE rd + road_width + padding + 1
              max_x == IF left THEN rd - width - padding - 1
                       ELSE LCD_X - 2 - width
          IN  {terrain_place(d.s, index, d.v, y, width, height) :
                 d \in DrawX(dl.s, "terrain_x", min_x, max_x)} :
          dl \in Rand(dt.s, "terrain_side", 2)} :
    dt \in Rand(s, "terrain_type", NUM_TERRAIN_TYPES)}

\* The loop of terrain_step from index i on, over every state of SS.
RECURSIVE terrain_step_from(_, _)
terrain_step_from(SS, i) ==
  IF i >= NUM_TERRAIN THEN SS
  ELSE terrain_step_from(
         Bind(SS, LAMBDA s :
           LET s1 == [s EXCEPT !.terrain[i].y = @ + 1]
           IN  IF s1.terrain[i].y > LCD_Y THEN terrain_reset(s1, i, 0) ELSE {s1}),
         i + 1)

terrain_step(s) == terrain_step_from({s}, 0)

\* The tail of hazard_reset: only the other hazards are checked.
hazard_place(s, index, x, y, width, height) ==
  LET sp == sprite_init(x, y, width, height)
      collision ==
        \E i \in 0..(NUM_HAZARD - 1) :
          i # index /\ check_sprite_collided(sp, s.hazard[i])
      s1 == [s EXCEPT !.hazard[index] =
               IF collision THEN [sp EXCEPT !.y = LCD_Y + 1] ELSE sp]
  IN  Placed(s1, "hazard", index)

\* A left end of the hazard's range that is the road's edge column itself.
hazard_min_x_edge(rd, padding) == rd

\* min_x of hazard_reset.
hazard_min_x(rd, padding) == rd + padding

hazard_reset(s, index, y_bot) ==
  UNION {
    LET width == hazard_image(dt.v).width
        height == hazard_image(dt.v).height
        padding == 1
        y == y_bot - height
        min_x == hazard_min_x(dt.s.road[y_bot], padding)
        max_x == dt.s.road[y_bot] + road_width - width - padding
    IN  {hazard_place(d.s, index, d.v, y, width, height) :
           d \in DrawX(dt.s, "hazard_x", min_x, max_x)} :
    dt \in Rand(s, "hazard_type", NUM_HAZARD_TYPES)}

RECURSIVE hazard_step_from(_, _)
hazard_step_from(SS, i) ==
  IF i >= NUM_HAZARD THEN SS
  ELSE hazard_step_from(
         Bind(SS, LAMBDA s :
           LET s1 == [s EXCEPT !.hazard[i].y = @ + 1]
           IN  IF s1.hazard[i].y > LCD_Y
                 THEN UNION {LET s2 == [roll.s EXCEPT !.rolls = @ \cup
                                          {[index |-> i, roll |-> roll.roll]}]
                             IN  IF roll.v THEN hazard_reset(s2, i, 0) ELSE {s2} :
                             roll \in RandBelow(s1, "hazard_roll", 100, HAZARD_SPAWN_CHANCE)}
                 ELSE {s1}),
         i + 1)

hazard_step(s) == hazard_step_from({s}, 0)

(***************************************************************************)
(* The fuel station.                                                       *)
(***************************************************************************)
\* The loop of fuel_station_reset that moves away the terrain in the station's way.
RECURSIVE fuel_station_clear_from(_, _)
fuel_station_clear_from(SS, i) ==
  IF i >= NUM_TERRAIN THEN SS
  ELSE fuel_station_clear_from(
         Bind(SS, LAMBDA s :
           IF check_sprite_collided(s.fuel_station, s.terrain[i])
             THEN terrain_reset(s, i, 0) ELSE {s}),
         i + 1)

\* The choice fuel_station_reset makes once the road has been set straight:
\* the side, the station's place, and the terrain in its way moved.
fuel_station_place(s1) ==
  LET y == 0 - fuel_station_height - 3
  IN  UNION {
        LET left == IF d.v # 0
                      THEN ~(d.s.road[0] - fuel_station_width <= DASHBOARD_BORDER_X)
                      ELSE d.s.road[0] + road_width + fuel_station_width >= LCD_X - 1
            x == IF left THEN d.s.road[0] - fuel_station_width + 1
                 ELSE d.s.road[0] + road_width
        IN  fuel_station_clear_from(
              {[d.s EXCEPT !.fuel_station.x = x, !.fuel_station.y = y]}, 0) :
        d \in Rand(s1, "station_side", 2)}

\* fuel_station_reset with a straight section of fuel_station_height - 2 steps.
fuel_station_reset_short(s) ==
  fuel_station_place([s EXCEPT !.road_direction = ROAD_STRAIGHT,
                               !.road_section_length = fuel_station_height - 2])

\* fuel_station_reset with the road left to curve as it did.
fuel_station_reset_curved(s) == fuel_station_place(s)

fuel_station_reset(s) ==
  fuel_station_place([s EXCEPT !.road_direction = ROAD_STRAIGHT,
                               !.road_section_length = fuel_station_height + 6])

\* A respawn test that passes with the counter at 0 already.
station_due_soon(s1) ==
  s1.fuel_station_counter <= 0 /\ s1.fuel_station.y > LCD_Y

\* The two tests fuel_station_step makes before it respawns the station.
station_due(s1) ==
  s1.fuel_station_counter < 0 /\ s1.fuel_station.y > LCD_Y

fuel_station_step(s) ==
  LET s1 == [s EXCEPT !.fuel_station_counter = @ - 1]
      spawned ==
        IF station_due(s1)
          THEN Bind(fuel_station_reset(s1), LAMBDA s2 :
                 {[d.s EXCEPT !.fuel_station_counter = d.v + FUEL_STATION_MIN] :
                    d \in Rand(s2, "station_counter", FUEL_STAION_MAX + 1 - FUEL_STATION_MIN)})
          ELSE {s1}
  IN  {[s3 EXCEPT !.fuel_station.y = @ + 1] : s3 \in spawned}

(***************************************************************************)
(* Refuelling.                                                             *)
(***************************************************************************)
\* check_refuel without its "speed = 0".
check_refuel_moving(s) ==
  LET x == s.player.x
      y == s.player.y
      fuelx == s.fuel_station.x
      fuely == s.fuel_station.y
  IN  IF /\ (x + s.player.width = fuelx) \/ (fuelx + s.fuel_station.width = x)
         /\ (y >= fuely) /\ (y + s.player.height <= fuely + s.fuel_station.height)
         /\ (s.speed < 3 * SPEED_SCALE) /\ s.state["button_left"] # 0
        THEN [s EXCEPT !.refuelling = TRUE]
        ELSE s

check_refuel(s) ==
  LET x == s.player.x
      y == s.player.y
      fuelx == s.fuel_station.x
      fuely == s.fuel_station.y
  IN  IF /\ (x + s.player.width = fuelx) \/ (fuelx + s.fuel_station.width = x)
         /\ (y >= fuely) /\ (y + s.player.height <= fuely + s.fuel_station.height)
         /\ (s.speed < 3 * SPEED_SCALE) /\ s.state["button_left"] # 0
        THEN [s EXCEPT !.refuelling = TRUE, !.speed = 0]
        ELSE s

refuel(s) ==
  IF ~s.refuelling THEN check_refuel(s)
  ELSE IF s.speed > 0 \/ s.state["button_left"] = 0
    THEN [s EXCEPT !.refuelling = FALSE]
  ELSE IF s.fuel + 1 > FUEL_MAX
    THEN [s EXCEPT !.fuel = FUEL_MAX, !.refuelling = FALSE]
  ELSE [s EXCEPT !.fuel = @ + 1]

(***************************************************************************)
(* The player.                                                             *)
(***************************************************************************)
player_car_setup(s) ==
  LET y == LCD_Y - car_height - 2
      x == (road_width \div 2) + s.road[y] - (car_width \div 2) + 1
  IN  [s EXCEPT !.player = sprite_init(x, y, car_width, car_height)]

player_car_reset(s) ==
  LET y == LCD_Y - car_height - 2
      x == (road_width \div 2) + s.road[y] - (car_width \div 2) + 1
  IN  [s EXCEPT !.player.x = x, !.player.y = y]

\* player_car_move without the undo of a colliding move.
player_car_move_through(s, dx0) ==
  LET x == s.player.x + dx0
      dx == IF ~in_bounds(x, s.player.y) THEN 0
            ELSE IF ~in_bounds(x + s.player.width, s.player.y) THEN 0
            ELSE dx0
  IN  [s EXCEPT !.player.x = @ + dx]

player_car_move(s, dx0) ==
  LET x == s.player.x + dx0
      dx == IF ~in_bounds(x, s.player.y) THEN 0
            ELSE IF ~in_bounds(x + s.player.width, s.player.y) THEN 0
            ELSE dx0
      s1 == [s EXCEPT !.player.x = @ + dx]
  IN  IF check_collision(s1, s1.player)
        THEN [s1 EXCEPT !.player.x = @ - dx]
        ELSE s1

\* A speed_limit that takes SPEED_MAX off the road as well.
speed_limit_road(s, pot) == ((pot * SPEED_MAX) \div ADC_RANGE) + 1

\* speed_limit of player_speed_input: (int)(pot0/1024.0 * max) + 1.
speed_limit(s, pot) ==
  LET max == IF offroad(s, s.player) THEN SPEED_OFFROAD_MAX ELSE SPEED_MAX
  IN  ((pot * max) \div ADC_RANGE) + 1

\* rate of player_speed_input, in units of 1/SPEED_SCALE.
\* A brake of half the strength: -10.0/80.0.
brake_rate_slow == 0 - ((10 * SPEED_SCALE) \div 80)

\* The brake's rate: -10.0/40.0.
brake_rate == 0 - ((10 * SPEED_SCALE) \div 40)

\* A coasting car that slows down whatever its speed.
coast_rises_fast(s) == FALSE

\* The test of the coasting branch, negated: the speed is not above 1.
coast_rises(s) == ~(s.speed > 1 * SPEED_SCALE)

speed_rate(s) ==
  IF s.state["button_left"] # 0 THEN brake_rate
  ELSE IF s.state["button_right"] # 0
    THEN IF offroad(s, s.player) THEN (3 * SPEED_SCALE) \div 120
         ELSE (10 * SPEED_SCALE) \div 90
  ELSE IF ~coast_rises(s)
    THEN IF offroad(s, s.player) THEN 0 - ((3 * SPEED_SCALE) \div 75)
         ELSE 0 - ((10 * SPEED_SCALE) \div 80)
  ELSE IF offroad(s, s.player) THEN (1 * SPEED_SCALE) \div 30
       ELSE (1 * SPEED_SCALE) \div 20

\* pot is what adc_read(0) returns.
\* player_speed_input without its two closing tests.
clamp_speed_open(sp, limit) == sp

\* The two tests that end player_speed_input.
clamp_speed(sp, limit) ==
  IF sp > limit THEN limit ELSE IF sp < 0 THEN 0 ELSE sp

player_speed_input(s, pot) ==
  [s EXCEPT !.speed = clamp_speed(s.speed + speed_rate(s),
                                  speed_limit(s, pot) * SPEED_SCALE)]

(***************************************************************************)
(* The screens.                                                            *)
(***************************************************************************)
RECURSIVE terrain_setup_from(_, _)
terrain_setup_from(SS, i) ==
  IF i >= NUM_TERRAIN THEN SS
  ELSE terrain_setup_from(
         Bind(SS, LAMBDA s :
           UNION {terrain_reset(d.s, i, d.v) : d \in Rand(s, "terrain_ybot", LCD_Y - 3)}),
         i + 1)

\* The first loop of terrain_setup: every sprite gets a type, off screen.
RECURSIVE terrain_init_from(_, _)
terrain_init_from(SS, i) ==
  IF i >= NUM_TERRAIN THEN SS
  ELSE terrain_init_from(
         Bind(SS, LAMBDA s :
           {[d.s EXCEPT !.terrain[i] =
               sprite_init(-10, -20, terrain_image(d.v).width, terrain_image(d.v).height)] :
             d \in Rand(s, "terrain_init", NUM_TERRAIN_TYPES)}),
         i + 1)

terrain_setup(s) == terrain_setup_from(terrain_init_from({s}, 0), 0)

RECURSIVE hazard_setup_from(_, _)
hazard_setup_from(SS, i) ==
  IF i >= NUM_HAZARD THEN SS
  ELSE hazard_setup_from(
         Bind(SS, LAMBDA s :
           UNION {hazard_reset(d.s, i, d.v) : d \in Rand(s, "hazard_ybot", LCD_Y - 20)}),
         i + 1)

RECURSIVE hazard_init_from(_, _)
hazard_init_from(SS, i) ==
  IF i >= NUM_HAZARD THEN SS
  ELSE hazard_init_from(
         Bind(SS, LAMBDA s :
           {[d.s EXCEPT !.hazard[i] =
               sprite_init(-10, -20, hazard_image(d.v).width, hazard_image(d.v).height)] :
             d \in Rand(s, "hazard_init", NUM_HAZARD_TYPES)}),
         i + 1)

hazard_setup(s) == hazard_setup_from(hazard_init_from({s}, 0), 0)

\* The assignments that open game_screen_setup, with fuel, distance and the
\* road left as the last session had them.
session_values_stale(s) ==
  [s EXCEPT
     !.placed = {},
     !.draws = {},
     !.rolls = {},
     !.game_paused = 0,
     !.distance_counter = 0,
     !.speed_counter = 0,
     !.finish_line = FINISH_LINE_START,
     !.game_over_loss = TRUE,
     !.condition = CONDITION_START,
     !.speed = SPEED_MAX * SPEED_SCALE,
     !.game_timer_counter = 0,
     !.road_counter = 0,
     !.road_curve = ROAD_CURVE_MIN,
     !.road_direction = ROAD_STRAIGHT]

\* The assignments that open game_screen_setup, up to the draw of the
\* first section length.
session_values(s) ==
  LET road_x == ((LCD_X - DASHBOARD_BORDER_X) \div 2) - (road_width \div 2)
                  + DASHBOARD_BORDER_X - 1
  IN  [s EXCEPT
         !.placed = {},
         !.draws = {},
         !.rolls = {},
         !.game_paused = 0,
         !.distance_counter = 0,
         !.speed_counter = 0,
         !.finish_line = FINISH_LINE_START,
         !.game_over_loss = TRUE,
         !.condition = CONDITION_START,
         !.fuel = FUEL_MAX,
         !.speed = SPEED_MAX * SPEED_SCALE,
         !.distance = 0,
         !.game_timer_counter = 0,
         !.road = [y \in 0..(LCD_Y - 1) |-> road_x],
         !.road_counter = 0,
         !.road_curve = ROAD_CURVE_MIN,
         !.road_direction = ROAD_STRAIGHT]

game_screen_setup(s) ==
  LET s1 == session_values(s)
      drawn ==
        UNION {
          {[d2.s EXCEPT
              !.road_section_length = d1.v + ROAD_SECTION_MIN,
              !.fuel_station_counter = d2.v + FUEL_STATION_MIN,
              !.fuel_station =
                 sprite_init(-10, -10, fuel_station_width, fuel_station_height)] :
            d2 \in Rand(d1.s, "station_counter", FUEL_STAION_MAX + 1 - FUEL_STATION_MIN)} :
          d1 \in Rand(s1, "road_section", ROAD_SECTION_MAX + 1 - ROAD_SECTION_MIN)}
  IN  Bind(Bind({player_car_setup(s2) : s2 \in drawn}, terrain_setup), hazard_setup)

change_screen(s, new_screen) ==
  {[s1 EXCEPT !.game_screen = new_screen] :
     s1 \in IF new_screen = GAME_SCREEN THEN game_screen_setup(s) ELSE {s}}

\* The rising edge of a control between the last update and now.
Edge(s, c) == (s.prev_state[c] = 0) /\ (s.state[c] # 0)

start_screen_update(s) ==
  IF Edge(s, "button_left") \/ Edge(s, "button_right")
    THEN change_screen(s, GAME_SCREEN)
    ELSE {s}

\* gameover_screen_update with the two buttons taken for each other.
gameover_screen_update_swapped(s) ==
  Bind(IF Edge(s, "button_right") THEN change_screen(s, START_SCREEN) ELSE {s},
       LAMBDA s1 :
         IF Edge(s1, "button_left") THEN change_screen(s1, GAME_SCREEN) ELSE {s1})

gameover_screen_update(s) ==
  Bind(IF Edge(s, "button_left") THEN change_screen(s, START_SCREEN) ELSE {s},
       LAMBDA s1 :
         IF Edge(s1, "button_right") THEN change_screen(s1, GAME_SCREEN) ELSE {s1})

\* game_screen_step from the stick input on, after the test of the fuel.
\* A test of distance_counter that passes one step early.
fuel_due_early(counter) == counter >= FUEL_FACTOR

\* The test game_screen_step makes of the incremented distance_counter.
fuel_due(counter) == counter > FUEL_FACTOR

game_screen_move(s1) ==
  LET s2 == IF s1.state["stick_left"] # 0 THEN player_car_move(s1, -1)
            ELSE IF s1.state["stick_right"] # 0 THEN player_car_move(s1, 1)
            ELSE s1
      s3 == IF fuel_due(U8(s2.distance_counter + 1))
              THEN [s2 EXCEPT !.fuel = @ - 1,
                              !.distance = U8(@ + 1),
                              !.finish_line = U8(@ - 1),
                              !.distance_counter = 0]
              ELSE [s2 EXCEPT !.distance_counter = U8(@ + 1)]
      s4 == refuel(s3)
      stepped ==
        Bind(Bind(Bind(terrain_step(s4), hazard_step), fuel_station_step), road_step)
  IN  Bind(stepped, LAMBDA s5 :
        IF s5.finish_line < 1
          THEN {[s6 EXCEPT !.game_over_loss = FALSE] :
                  s6 \in change_screen(s5, GAMEOVER_SCREEN)}
          ELSE {s5})

\* game_screen_step without its test of the fuel: a session goes on with
\* the tank empty.
game_screen_step_unfuelled(s) ==
  game_screen_move([s EXCEPT !.placed = {}, !.draws = {}, !.rolls = {}])

game_screen_step(s) ==
  LET s0 == [s EXCEPT !.placed = {}, !.draws = {}, !.rolls = {}]
  IN  Bind(IF s0.fuel <= 0 THEN change_screen(s0, GAMEOVER_SCREEN) ELSE {s0},
           game_screen_move)

(***************************************************************************)
(* The messages to the server.                                             *)
(***************************************************************************)
SAVE == 1
DEBUG == 3
Digits == <<"0", "1", "2", "3", "4", "5", "6", "7", "8", "9">>

\* The byte of a character that %d\n prints.
char_code(c) ==
  IF c = "\n" THEN 10
  ELSE IF c = "-" THEN 45
  ELSE 48 + (CHOOSE d \in 0..9 : Digits[d + 1] = c)

\* What %d prints.
RECURSIVE decimal(_)
decimal(n) ==
  IF n < 0 THEN <<"-">> \o decimal(0 - n)
  ELSE IF n < 10 THEN <<Digits[n + 1]>>
  ELSE decimal(n \div 10) \o <<Digits[(n % 10) + 1]>>

\* What vsnprintf makes of a format of Len(args) conversions "%d\n".
RECURSIVE format_lines(_)
format_lines(args) ==
  IF args = << >> THEN << >>
  ELSE decimal(Head(args)) \o <<"\n">> \o format_lines(Tail(args))

\* usb_send_message for a formatted text shorter than the buffer: the
\* command byte, the line_num byte, then size characters of the buffer.
usb_send_message(s, command, line_num, buffer_size, text) ==
  LET sent == SubSeq(text, 1, Min(Len(text), buffer_size - 1)) IN
  [s EXCEPT !.usb_out =
     [command |-> U8(command), line_num |-> U8(line_num), text |-> sent],
            !.usb_serial = @ \o <<U8(command), U8(line_num)>> \o
                           [i \in 1..Len(sent) |-> char_code(sent[i])]]

\* (int)round(speed): to the nearest whole number, halves away from 0
\* (speed is never negative).
round_speed(sp) == (2 * sp + SPEED_SCALE) \div (2 * SPEED_SCALE)

game_state_save(s) ==
  usb_send_message(s, SAVE, 4, 500,
    format_lines(<<s.condition, round_speed(s.speed), s.fuel, s.distance, 0>>))

\* A pause that toggles for as long as the centre stick is held.
pause_pressed_held(s) == s.state["stick_centre"] # 0

\* The test of the pause toggle: the centre stick was up at the last update
\* and is down now.
pause_pressed(s) == Edge(s, "stick_centre")

\* A game step only once speed_counter has passed twice SPEED_THRESH.
step_due_late(s) ==
  s.speed_counter > 2 * SPEED_THRESH * SPEED_SCALE * SPEED_FACTOR

\* speed_counter has passed SPEED_THRESH (speed_counter holds the sum of
\* the speeds, not divided by SPEED_FACTOR).
step_due(s) == s.speed_counter > SPEED_THRESH * SPEED_SCALE * SPEED_FACTOR

\* pot is what adc_read(0) returns in player_speed_input.
game_screen_update(s, pot) ==
  LET s1 == IF pause_pressed(s)
              THEN [s EXCEPT !.game_paused = IF @ = 0 THEN 1 ELSE 0]
              ELSE s
  IN  IF s1.game_paused = 0
        THEN {player_speed_input(s2, pot) :
                s2 \in IF step_due(s1)
                         THEN game_screen_step([s1 EXCEPT !.speed_counter = 0])
                         ELSE {s1}}
        ELSE IF Edge(s1, "stick_up") THEN {game_state_save(s1)}
        ELSE {s1}

\* The switch of update().
screen_update(s, pot) ==
  IF s.game_screen = START_SCREEN THEN start_screen_update(s)
  ELSE IF s.game_screen = GAME_SCREEN THEN game_screen_update(s, pot)
  ELSE IF s.game_screen = GAMEOVER_SCREEN THEN gameover_screen_update(s)
  ELSE {s}

\* The copies of update() taking each press as they record it: the
\* debounced state is cleared once copied.
copy_prev_taking(s, C) ==
  [s EXCEPT !.prev_state = [c \in Controls |-> IF c \in C THEN s.state[c] ELSE @[c]],
            !.state = [c \in Controls |-> IF c \in C THEN 0 ELSE @[c]]]

\* The end of update(): prev_*_state = *_state, for the controls of C.
copy_prev(s, C) ==
  [s EXCEPT !.prev_state = [c \in Controls |-> IF c \in C THEN s.state[c] ELSE @[c]]]

update(s, pot) == {copy_prev(s1, Controls) : s1 \in screen_update(s, pot)}

(***************************************************************************)
(* ISR(TIMER1_COMPA_vect): speed_counter += speed/SPEED_FACTOR.            *)
(***************************************************************************)
\* TIMER1_COMPA_vect without the test of game_paused.
TIMER1_COMPA_vect_unpaused(s) ==
  IF s.game_screen = GAME_SCREEN
    THEN [s EXCEPT !.speed_counter = @ + s.speed]
    ELSE s

\* TIMER1_COMPA_vect with a rate of (speed + SPEED_THRESH)/SPEED_FACTOR.
TIMER1_COMPA_vect_creeping(s) ==
  IF s.game_paused = 0 /\ s.game_screen = GAME_SCREEN
    THEN [s EXCEPT !.speed_counter = @ + s.speed + SPEED_THRESH * SPEED_SCALE]
    ELSE s

TIMER1_COMPA_vect(s) ==
  IF s.game_paused = 0 /\ s.game_screen = GAME_SCREEN
    THEN [s EXCEPT !.speed_counter = @ + s.speed]
    ELSE s

(***************************************************************************)
(* ISR(TIMER0_OVF_vect): the time counters and the debouncing.             *)
(***************************************************************************)
\* debounce with the "& mask" left out: the history keeps every sample.
debounce_unmasked(h, st, b) ==
  LET nh == (h * 2) + b
  IN  [history |-> nh,
       state |-> IF nh = 0 THEN 0 ELSE IF nh = mask THEN 1 ELSE st]

\* debounce looking at five samples instead of six.
debounce_five(h, st, b) ==
  LET nh == ((h * 2) % (mask + 1)) + b
  IN  [history |-> nh,
       state |-> IF nh % 32 = 0 THEN 0 ELSE IF nh % 32 = 31 THEN 1 ELSE st]

\* One control's block: history = ((history << 1) & mask) | b, then the stable
\* state follows the history when it is all zeros or all ones.
debounce(h, st, b) ==
  LET nh == ((h * 2) % (mask + 1)) + b
  IN  [history |-> nh,
       state |-> IF nh = 0 THEN 0 ELSE IF nh = mask THEN 1 ELSE st]

\* TIMER0_OVF_vect counting the game's time on every screen, paused or not.
TIMER0_OVF_vect_ungated(s, b) ==
  LET d == [c \in Controls |-> debounce(s.history[c], s.state[c], b[c])]
  IN  [s EXCEPT
        !.game_timer_counter = U16(@ + 1),
        !.loop_counter = U16(@ + 1),
        !.history = [c \in Controls |-> d[c].history],
        !.state = [c \in Controls |-> d[c].state]]

\* b[c] is the level read from control c's pin.
TIMER0_OVF_vect(s, b) ==
  LET d == [c \in Controls |-> debounce(s.history[c], s.state[c], b[c])]
  IN  [s EXCEPT
        !.game_timer_counter =
            IF s.game_paused = 0 /\ s.game_screen = GAME_SCREEN
              THEN U16(@ + 1) ELSE @,
        !.loop_counter = U16(@ + 1),
        !.history = [c \in Controls |-> d[c].history],
        !.state = [c \in Controls |-> d[c].state]]

\* The pin levels in which only the controls of A may be high.
PinLevels(A) ==
  {b \in [Controls -> {0, 1}] : \A c \in Controls \ A : b[c] = 0}

\* The raw samples of a control, the newest last, at most DEBOUNCE_N of them.
Sampled(q, b) ==
  LET r == Append(q, b)
  IN  IF Len(r) > DEBOUNCE_N THEN Tail(r) ELSE r

\* The operation is noted and counted; timer 0's count and main's t are as
\* they were (an overflow leaves TCNT0 at 0).
Mark(name) ==
  /\ last' = name
  /\ ops' = ops + 1
  /\ UNCHANGED <<TCNT0, main_t>>

\* A TIMER0 overflow with pin levels b.
Timer0(b) ==
  /\ Commit(TIMER0_OVF_vect(Cur, b))
  /\ pins' = b
  /\ raw_samples' = [c \in Controls |-> Sampled(raw_samples[c], b[c])]
  /\ Mark("TIMER0_OVF_vect")
  /\ UNCHANGED <<pot0, pc, brake_updates>>

\* The state s of the globals with timer 0 at count.
InitFrom(s, free, pot, count) ==
  /\ state = s.state
  /\ prev_state = s.prev_state
  /\ history = s.history
  /\ condition = s.condition
  /\ fuel = s.fuel
  /\ speed = s.speed
  /\ distance = s.distance
  /\ finish_line = s.finish_line
  /\ distance_counter = s.distance_counter
  /\ speed_counter = s.speed_counter
  /\ game_over_loss = s.game_over_loss
  /\ game_timer_counter = s.game_timer_counter
  /\ game_paused = s.game_paused
  /\ loop_counter = s.loop_counter
  /\ player = s.player
  /\ road = s.road
  /\ road_counter = s.road_counter
  /\ road_curve = s.road_curve
  /\ road_direction = s.road_direction
  /\ road_section_length = s.road_section_length
  /\ terrain = s.terrain
  /\ hazard = s.hazard
  /\ fuel_station = s.fuel_station
  /\ fuel_station_counter = s.fuel_station_counter
  /\ refuelling = s.refuelling
  /\ game_screen = s.game_screen
  /\ rand_next = s.rand_next
  /\ placed = s.placed
  /\ draws = s.draws
  /\ rolls = s.rolls
  /\ usb_out = s.usb_out
  /\ usb_serial = s.usb_serial
  /\ host = s.host
  /\ TCNT0 = count
  /\ main_t = 0
  /\ rand_free = free
  /\ pins = [c \in Controls |-> 0]
  /\ pot0 = pot
  /\ pc = "update"
  /\ raw_samples = [c \in Controls |-> << >>]
  /\ brake_updates = 0
  /\ last = "main"
  /\ ops = 0

InitAt(s, free, pot) == InitFrom(s, free, pot, 0)

InitWith(s, free) == InitAt(s, free, ADC_MAX)

(***************************************************************************)
(* Actions shared by the specifications.                                   *)
(***************************************************************************)
\* change_screen(GAME_SCREEN), as start_screen_update and
\* gameover_screen_update call it: the session setup.
ChangeToGame ==
  /\ game_screen \in {START_SCREEN, GAMEOVER_SCREEN}
  /\ \E t \in change_screen(Cur, GAME_SCREEN) : Commit(t)
  /\ Mark("game_screen_setup")
  /\ UNCHANGED <<pins, pot0, pc, raw_samples, brake_updates>>

\* One call of game_screen_step, as game_screen_update makes it when
\* speed_counter has passed SPEED_THRESH.
GameStep ==
  /\ game_screen = GAME_SCREEN
  /\ game_paused = 0
  /\ \E t \in game_screen_step([Cur EXCEPT !.speed_counter = 0]) : Commit(t)
  /\ Mark("game_screen_step")
  /\ UNCHANGED <<pins, pot0, pc, raw_samples, brake_updates>>

\* DEBOUNCE_N TIMER0 overflows in a row with the pins at levels b: the
\* time it takes a change of the controls to reach the debounced states.
RECURSIVE timer0_run(_, _, _)
timer0_run(s, b, n) ==
  IF n = 0 THEN s ELSE timer0_run(TIMER0_OVF_vect(s, b), b, n - 1)

Hold(b) ==
  /\ Commit(timer0_run(Cur, b, DEBOUNCE_N))
  /\ pins' = b
  /\ raw_samples' = [c \in Controls |-> [i \in 1..DEBOUNCE_N |-> b[c]]]
  /\ Mark("TIMER0_OVF_vect")
  /\ UNCHANGED <<pot0, pc, brake_updates>>

\* The pin levels with exactly the controls of P pressed.
Pressed(P) == [c \in Controls |-> IF c \in P THEN 1 ELSE 0]

\* brake_updates counts no further than this.
MaxBrakeCount == 48

\* One call of update() from the main loop, run without interruption.
UpdateStep ==
  /\ pc = "update"
  /\ \E t \in update(Cur, pot0) :
       /\ Commit(t)
       /\ brake_updates' =
            IF game_screen = GAME_SCREEN /\ t.game_paused = 0
                 /\ state["button_left"] # 0
              THEN Min(brake_updates + 1, MaxBrakeCount) ELSE 0
  /\ pc' = "timer"
  /\ UNCHANGED <<pins, pot0, raw_samples>>

Update == UpdateStep /\ Mark("update")

\* The TIMER1 compare interrupt; it and the main loop both run at 60 Hz,
\* so it fires once per loop iteration.
Tick1Step ==
  /\ pc = "timer"
  /\ Commit(TIMER1_COMPA_vect(Cur))
  /\ pc' = "update"
  /\ UNCHANGED <<pins, pot0, raw_samples, brake_updates>>

Tick1 == Tick1Step /\ Mark("TIMER1_COMPA_vect")

\* The Start screen with every control released, now and at the last
\* update: loop iterations and timer interrupts change nothing there.
Idle ==
  /\ game_screen = START_SCREEN
  /\ \A c \in Controls : state[c] = 0 /\ prev_state[c] = 0

\* update() is about to call game_screen_step: the Game screen, not paused
\* once the pause toggle is through, speed_counter past SPEED_THRESH.
steps_now(s) ==
  /\ s.game_screen = GAME_SCREEN
  /\ (s.game_paused = 0) # Edge(s, "stick_centre")
  /\ s.speed_counter > SPEED_THRESH * SPEED_SCALE * SPEED_FACTOR

\* The iterations of main's while(1) from state s on, each an update() and
\* the TIMER1 interrupt that falls in its pacing wait, up to and including
\* the first iteration that runs a game step; a single iteration on the
\* other screens and while paused; and no further than an iteration that
\* leaves everything as it was.  n counts the iterations.
RECURSIVE main_loop(_, _, _)
main_loop(s, pot, n) ==
  LET after == {TIMER1_COMPA_vect(t) : t \in update(s, pot)}
  IN  UNION {
        IF /\ ~steps_now(s)
           /\ s.game_screen = GAME_SCREEN
           /\ t.game_screen = GAME_SCREEN
           /\ t.game_paused = 0
           /\ t # s
          THEN main_loop(t, pot, n + 1)
          ELSE {[s |-> t, n |-> n + 1]} :
        t \in after}

\* The main loop runs on to its next game step, the controls as they are.
Lap ==
  /\ pc = "update"
  /\ \E r \in main_loop(Cur, pot0, 0) :
       /\ Commit(r.s)
       /\ brake_updates' =
            IF game_screen = GAME_SCREEN /\ r.s.game_paused = 0
                 /\ state["button_left"] # 0
              THEN Min(brake_updates + r.n, MaxBrakeCount) ELSE 0
  /\ Mark("main")
  /\ UNCHANGED <<pins, pot0, pc, raw_samples>>

\* The debounced controls are as the last update() saw them.
Seen == \A c \in Controls : state[c] = prev_state[c]

(***************************************************************************)
(* SpecScreens: the three screens.  The driver leaves the Start screen     *)
(* with either button, may pause and resume as the session begins, drives  *)
(* with accelerate held until the fuel is out, and leaves the GameOver     *)
(* screen with either button or both.  The main loop is followed from one  *)
(* game step to the next.  TIMER0 overflows are followed where the driver  *)
(* changes the controls, and one more at any quiet moment; a session in    *)
(* which they fell is followed for its first steps, the others to the end. *)
(***************************************************************************)
MaxScreenOps == 430

MaxScreenTicks == 36

ScreenHolds ==
  {Pressed(P) : P \in {{}, {"button_left"}, {"button_right"},
                       {"button_left", "button_right"}}}

InitScreens == InitWith(Boot, {})

HoldScreens ==
  /\ pc = "update"
  /\ last # "TIMER0_OVF_vect"
  /\ \/ /\ game_screen \in {START_SCREEN, GAMEOVER_SCREEN}
        /\ \E b \in ScreenHolds : b # pins /\ Hold(b)
     \/ /\ game_screen = GAME_SCREEN
        /\ state["button_right"] = 0
        /\ Hold(Pressed({"button_right"}))
     \/ /\ game_screen = GAME_SCREEN
        /\ loop_counter < MaxScreenTicks
        /\ state["button_right"] # 0
        /\ \E b \in {Pressed({"button_right"}),
                     Pressed({"button_right", "stick_centre"})} :
             b # pins /\ Hold(b)

\* A single TIMER0 overflow, the pins as they are.
TickScreens ==
  /\ pc = "update"
  /\ last = "main"
  /\ Seen
  /\ loop_counter > 0
  /\ loop_counter % DEBOUNCE_N = 0
  /\ Timer0(pins)

\* The main loop runs on where the controls have changed, and through a
\* session in which no TIMER0 overflow has fallen so far.
LapScreens ==
  /\ \/ ~Seen
     \/ game_screen = GAME_SCREEN /\ game_paused = 0 /\ game_timer_counter = 0
  /\ Lap

NextScreens ==
  \/ ops < MaxScreenOps /\ LapScreens
  \/ ops < MaxScreenOps /\ HoldScreens
  \/ ops < MaxScreenOps /\ TickScreens

SpecScreens == InitScreens /\ [][NextScreens]_vars

(***************************************************************************)
(* SpecLatch: session after session with accelerate held, each until the   *)
(* fuel is out.  The main loop is followed from one game step to the next, *)
(* and update by update once the fuel is at 0; there the driver brakes if  *)
(* the fuel station is beside the car.                                     *)
(***************************************************************************)
MaxLatchOps == 2620

InitLatch == InitWith(Boot, {})

\* The car's box stands against the left or the right side of the station.
Beside ==
  /\ \/ player.x + player.width = fuel_station.x
     \/ fuel_station.x + fuel_station.width = player.x
  /\ player.y >= fuel_station.y
  /\ player.y + player.height <= fuel_station.y + fuel_station.height

HoldLatch ==
  /\ pc = "update"
  /\ last # "TIMER0_OVF_vect"
  /\ \/ /\ game_screen \in {START_SCREEN, GAMEOVER_SCREEN}
        /\ \E b \in {Pressed({}), Pressed({"button_right"})} : b # pins /\ Hold(b)
     \/ /\ game_screen = GAME_SCREEN
        /\ fuel <= 0
        /\ Beside
        /\ state["button_left"] = 0
        /\ Hold(Pressed({"button_left"}))

LapLatch ==
  /\ \/ ~Seen
     \/ game_screen = GAME_SCREEN /\ fuel > 0
  /\ Lap

UpdateLatch ==
  /\ game_screen = GAME_SCREEN
  /\ fuel <= 0
  /\ Update

NextLatch ==
  \/ ops < MaxLatchOps /\ LapLatch
  \/ ops < MaxLatchOps /\ UpdateLatch
  \/ ops < MaxLatchOps /\ Tick1
  \/ ops < MaxLatchOps /\ HoldLatch

SpecLatch == InitLatch /\ [][NextLatch]_vars

(***************************************************************************)
(* SpecRefuel: the first session up to its first fuel station, update by   *)
(* update.  The driver holds accelerate, steers to the station's side as   *)
(* it comes down the screen, brakes at some moment while it passes, and    *)
(* may let go of the brake once the car stands.  The main loop never stops *)
(* and the TIMER1 interrupt keeps firing.                                  *)
(***************************************************************************)
\* The distance at which the first station of the session is about to spawn.
RefuelFrom == 42

\* The station row at which the driver starts to steer, the one from which
\* the driver may brake, and the one after which the drive is left.
SteerRow == 28

BrakeRow == 36

RefuelLastRow == 43

InitRefuel == InitWith(Boot, {})

\* The operation is noted; only the driver's moves are counted.
Quiet(name) ==
  /\ last' = name
  /\ UNCHANGED <<ops, TCNT0, main_t>>

\* The car is flush with one side of the station, whatever the row.
Flush ==
  \/ player.x + player.width = fuel_station.x
  \/ fuel_station.x + fuel_station.width = player.x

HoldRefuel ==
  /\ pc = "update"
  /\ \/ /\ game_screen = START_SCREEN
        /\ pins = Pressed({})
        /\ Hold(Pressed({"button_right"}))
     \/ /\ game_screen = GAME_SCREEN
        /\ distance >= RefuelFrom
        /\ pins = Pressed({"button_right"})
        /\ fuel_station.y = SteerRow
        /\ ~Flush
        /\ Hold(Pressed({"button_right",
                         IF player.x > fuel_station.x THEN "stick_left" ELSE "stick_right"}))
     \/ /\ game_screen = GAME_SCREEN
        /\ pins \in {Pressed({"button_right", "stick_left"}),
                     Pressed({"button_right", "stick_right"})}
        /\ Flush
        /\ Hold(Pressed({"button_right"}))
     \/ /\ game_screen = GAME_SCREEN
        /\ distance >= RefuelFrom
        /\ pins = Pressed({"button_right"})
        /\ Flush
        /\ fuel_station.y >= BrakeRow
        /\ Hold(Pressed({"button_left"}))
     \/ /\ game_screen = GAME_SCREEN
        /\ pins = Pressed({"button_left"})
        /\ speed = 0
        /\ Hold(Pressed({}))

\* The drive is followed up to the station and while the latch is set.
InReach ==
  \/ game_screen = START_SCREEN /\ ~Idle
  \/ /\ game_screen = GAME_SCREEN
     /\ \/ distance < RefuelFrom
        \/ fuel_station.y <= RefuelLastRow
        \/ refuelling

UpdateRefuel == InReach /\ UpdateStep /\ Quiet("update")

Tick1Refuel == Tick1Step /\ Quiet("TIMER1_COMPA_vect")

NextRefuel ==
  \/ UpdateRefuel
  \/ Tick1Refuel
  \/ HoldRefuel

SpecRefuel ==
  /\ InitRefuel
  /\ [][NextRefuel]_vars
  /\ WF_vars(UpdateRefuel)
  /\ WF_vars(Tick1Refuel)

(***************************************************************************)
(* SpecDrive: the main loop with the timers, from the Start screen into a  *)
(* session.  The driver presses one set of controls on the Start screen    *)
(* and changes to another set once, at any moment of the session; the      *)
(* speed potentiometer has one of three settings.                          *)
(***************************************************************************)
MaxDriveOps == 90

DrivePots == {0, ADC_RANGE \div 2, ADC_MAX}

DriveHolds ==
  {Pressed(P) : P \in {{}, {"button_left"}, {"button_right"},
                       {"button_right", "stick_left"}, {"stick_left"}}}

InitDrive == \E pot \in DrivePots : InitAt(Boot, {}, pot)

HoldDrive ==
  /\ pc = "update"
  /\ \/ game_screen = START_SCREEN /\ loop_counter = 0
     \/ game_screen = GAME_SCREEN /\ game_timer_counter = 0
  /\ \E b \in DriveHolds : b # pins /\ Hold(b)

NextDrive ==
  \/ ops < MaxDriveOps /\ ~Idle /\ Update
  \/ ops < MaxDriveOps /\ ~Idle /\ Tick1
  \/ ops < MaxDriveOps /\ HoldDrive

SpecDrive == InitDrive /\ [][NextDrive]_vars

(***************************************************************************)
(* SpecSession: a whole session at full speed, accelerate held from the    *)
(* Start screen until the fuel runs out, and the presses that leave the    *)
(* GameOver screen afterwards.                                             *)
(***************************************************************************)
MaxSessionOps == 13680

InitSession == InitWith(Boot, {})

HoldSession ==
  /\ pc = "update"
  /\ last # "TIMER0_OVF_vect"
  /\ \/ /\ game_screen = START_SCREEN
        /\ \E b \in {Pressed({}), Pressed({"button_right"})} : b # pins /\ Hold(b)
     \/ /\ game_screen = GAMEOVER_SCREEN
        /\ \E b \in {Pressed({}), Pressed({"button_left"}), Pressed({"button_right"})} :
             b # pins /\ Hold(b)

NextSession ==
  \/ ops < MaxSessionOps /\ ~Idle /\ Update
  \/ ops < MaxSessionOps /\ ~Idle /\ Tick1
  \/ ops < MaxSessionOps /\ HoldSession

SpecSession == InitSession /\ [][NextSession]_vars

(***************************************************************************)
(* SpecStart: the main loop on the Start screen, update() in two steps,    *)
(* the switch on game_screen and then the copies into prev_*_state, with   *)
(* the TIMER0 interrupt free to fire before, between and after them.       *)
(***************************************************************************)
MaxStartTicks == 7

MaxStartOps == 16

\* No control, the brake alone, or accelerate alone.
StartLevels == {Pressed({}), Pressed({"button_left"}), Pressed({"button_right"})}

InitStart == InitWith(Boot, {})

\* update() down to the end of its switch.
ScreenUpdate ==
  /\ pc = "update"
  /\ game_screen = START_SCREEN
  /\ \E t \in screen_update(Cur, pot0) : Commit(t)
  /\ pc' = "copy"
  /\ Mark("screen_update")
  /\ UNCHANGED <<pins, pot0, raw_samples, brake_updates>>

\* The rest of update(): prev_*_state = *_state.
CopyPrev ==
  /\ pc = "copy"
  /\ Commit(copy_prev(Cur, Controls))
  /\ pc' = "update"
  /\ Mark("update")
  /\ UNCHANGED <<pins, pot0, raw_samples, brake_updates>>

TickStart ==
  /\ loop_counter < MaxStartTicks
  /\ \E b \in StartLevels : Timer0(b)

NextStart ==
  \/ ops < MaxStartOps /\ ScreenUpdate
  \/ ops < MaxStartOps /\ CopyPrev
  \/ ops < MaxStartOps /\ TickStart

SpecStart == InitStart /\ [][NextStart]_vars

(***************************************************************************)
(* SpecRoad: a session's first game steps with every draw of road_step     *)
(* (direction, curve, section length) left open.                           *)
(***************************************************************************)
MaxRoadSteps == 36

RoadSites == {"road_direction", "road_curve", "road_section"}

InitRoad == InitWith(Boot, RoadSites)

NextRoad ==
  \/ ChangeToGame
  \/ ops <= MaxRoadSteps /\ GameStep

SpecRoad == InitRoad /\ [][NextRoad]_vars

(***************************************************************************)
(* SpecCruise: a long drive at full speed; the direction draws are open,   *)
(* the other draws follow the generator seeded by srand.  Long enough for  *)
(* the road to reach both screen edges and for fuel stations to spawn.     *)
(***************************************************************************)
MaxCruiseSteps == 200

InitCruise == InitWith(Boot, {"road_direction"})

NextCruise ==
  \/ ChangeToGame
  \/ ops <= MaxCruiseSteps /\ GameStep

SpecCruise == InitCruise /\ [][NextCruise]_vars

(***************************************************************************)
(* SpecPlace: the drive up to the first fuel station follows the generator *)
(* seeded by srand; from there on the draws that place terrain, hazards    *)
(* and the station are open.                                               *)
(***************************************************************************)
PlaceOpenFrom == 167

MaxPlaceSteps == 170

PlaceSites ==
  {"terrain_x", "station_side", "hazard_x", "hazard_roll"}

InitPlace == InitWith(Boot, {})

\* game_screen_step with the placement draws open.
GameStepOpen ==
  /\ game_screen = GAME_SCREEN
  /\ game_paused = 0
  /\ \E t \in game_screen_step([Cur EXCEPT !.speed_counter = 0,
                                           !.rand_free = PlaceSites]) : Commit(t)
  /\ Mark("game_screen_step")
  /\ UNCHANGED <<pins, pot0, pc, raw_samples, brake_updates>>

NextPlace ==
  \/ ChangeToGame
  \/ ops < PlaceOpenFrom /\ GameStep
  \/ ops >= PlaceOpenFrom /\ ops <= MaxPlaceSteps /\ GameStepOpen

SpecPlace == InitPlace /\ [][NextPlace]_vars

(***************************************************************************)
(* SpecDebounce: the input sampler alone.  The program sits on the Start   *)
(* screen and the timer interrupt samples the pins; two of the controls    *)
(* (the first and the last the interrupt handles) see arbitrary levels.    *)
(***************************************************************************)
MaxTicks == 13

DebouncePins == {"button_left", "stick_down"}

InitDebounce == InitWith(Boot, {})

TickDebounce ==
  /\ loop_counter < MaxTicks
  /\ \E b \in PinLevels(DebouncePins) : Timer0(b)

SpecDebounce == InitDebounce /\ [][TickDebounce]_vars

\* A history register read as its DEBOUNCE_N samples, the oldest first.
HistBits(h) == [i \in 1..DEBOUNCE_N |-> (h \div (2 ^ (DEBOUNCE_N - i))) % 2]

AllBits(q, v) == \A i \in 1..Len(q) : q[i] = v

\* C4: a TIMER0 overflow shifts exactly one raw sample (the level of the
\* control's own pin) into each control's six-bit history, dropping the oldest,
\* and then sets the control's stable state to 0 if the history is all zeros,
\* to 1 if it is all ones, and leaves it as it was otherwise; what a control's
\* history and state become depends on nothing but that control's own history,
\* state and pin.
C4_DebounceRule ==
  [][\A c \in Controls :
       /\ history'[c] \in 0..mask
       /\ HistBits(history'[c]) = Tail(HistBits(history[c])) \o <<pins'[c]>>
       /\ state'[c] = IF AllBits(HistBits(history'[c]), 0) THEN 0
                      ELSE IF AllBits(HistBits(history'[c]), 1) THEN 1
                      ELSE state[c]]_vars

\* C4 witness: in one tick the first control's state has gone to 1 on an
\* all-ones history while the last control, its history mixed, kept its state.
C4_Witness ==
  /\ last = "TIMER0_OVF_vect"
  /\ history["button_left"] = mask
  /\ state["button_left"] = 1
  /\ history["stick_down"] = 21
  /\ state["stick_down"] = 0
  /\ state["stick_up"] = 0

\* C5: a control's stable state changes, to v, only at a tick whose six most
\* recent raw samples (that tick's included) all equal v, so a single opposite
\* sample inside a run never flips it; and whenever the six most recent raw
\* samples all equal v the stable state is v.
C5_Hysteresis ==
  /\ [][\A c \in Controls :
          state'[c] # state[c] =>
            /\ Len(raw_samples'[c]) = DEBOUNCE_N
            /\ AllBits(raw_samples'[c], state'[c])]_vars
  /\ [](\A c \in Controls : \A v \in {0, 1} :
          (Len(raw_samples[c]) = DEBOUNCE_N /\ AllBits(raw_samples[c], v))
            => state[c] = v)

\* C5 witness: the state went to 1 on six ones and a single 0 sample in the
\* run of ones has not flipped it back.
C5_Witness ==
  /\ last = "TIMER0_OVF_vect"
  /\ raw_samples["button_left"] = <<1, 1, 1, 1, 0, 1>>
  /\ state["button_left"] = 1

(***************************************************************************)
(* The road.                                                               *)
(***************************************************************************)
Abs(n) == IF n < 0 THEN -n ELSE n

\* C1: in every state of a session, after game_screen_setup and after any
\* number of game steps (road_step calls and fuel-station spawns), every
\* road[y] lies in DASHBOARD_BORDER_X+1 .. LCD_X-1-road_width (27 .. 67).
C1_RoadBounds ==
  game_screen = GAME_SCREEN =>
    \A y \in 0..(LCD_Y - 1) :
      /\ DASHBOARD_BORDER_X + 1 <= road[y]
      /\ road[y] <= LCD_X - 1 - road_width

\* A left curve held at the left edge by the bound test, in a session
\* where a fuel station has already spawned.
C1_Witness ==
  /\ game_screen = GAME_SCREEN
  /\ last = "game_screen_step"
  /\ road[0] = DASHBOARD_BORDER_X + 1
  /\ road_direction = ROAD_LEFT
  /\ road_counter > road_curve
  /\ fuel_station.x >= 0

C2_dx ==
  IF road_direction = ROAD_LEFT THEN -1
  ELSE IF road_direction = ROAD_RIGHT THEN 1 ELSE 0

C2_applied ==
  /\ road[0] + C2_dx + road_width < LCD_X - 1
  /\ road[0] + C2_dx > DASHBOARD_BORDER_X
  /\ road_counter + 1 > road_curve

\* C2: after each road_step, road[y] is the value road[y-1] had before the
\* call for every 1 <= y < LCD_Y (the old bottom entry is gone), and road[0]
\* is the old road[0] + dx when the horizontal shift is applied, otherwise
\* the old road[0].
C2_ShiftQueue ==
  [][last' = "game_screen_step" =>
       /\ \A y \in 1..(LCD_Y - 1) : road'[y] = road[y - 1]
       /\ road'[0] = IF C2_applied THEN road[0] + C2_dx ELSE road[0]]_vars

\* A road bent by several shifts, all rows carried down by the last step.
C2_Witness ==
  /\ last = "game_screen_step"
  /\ road[0] = road[1] - 1
  /\ road[3] = road[1] + 1
  /\ road[LCD_Y - 1] # road[0]

\* C3: every road_step changes the top offset by at most 1, and in every
\* state of a session adjacent scanlines differ by at most 1, whatever the
\* direction, curve and section draws.
C3_Continuity ==
  /\ [](game_screen = GAME_SCREEN =>
          \A y \in 0..(LCD_Y - 2) : Abs(road[y] - road[y + 1]) <= 1)
  /\ [][last' = "game_screen_step" => Abs(road'[0] - road[0]) <= 1]_vars

\* A road that has curved one way and then the other.
C3_Witness ==
  /\ game_screen = GAME_SCREEN
  /\ \E y \in 0..(LCD_Y - 2) : road[y] - road[y + 1] = 1
  /\ \E y \in 0..(LCD_Y - 2) : road[y] - road[y + 1] = -1

(***************************************************************************)
(* Placement.                                                              *)
(***************************************************************************)
C6_sprite(p) == IF p.pool = "terrain" THEN p.terrain[p.index] ELSE p.hazard[p.index]

C6_pool(p) == IF p.pool = "terrain" THEN p.terrain ELSE p.hazard

C6_overlap_x(a, b) == ~((a.x + a.width <= b.x) \/ (a.x >= b.x + b.width))

\* C6: when terrain_reset or hazard_reset returns, the re-placed sprite
\* overlaps (in the sense of check_sprite_collided) no other member of its
\* pool and not the fuel station, or it is parked at y = LCD_Y + 1.
C6_PlacementClear ==
  \A p \in placed :
    \/ C6_sprite(p).y = LCD_Y + 1
    \/ /\ \A j \in (DOMAIN C6_pool(p)) \ {p.index} :
            ~check_sprite_collided(C6_sprite(p), C6_pool(p)[j])
       /\ ~check_sprite_collided(C6_sprite(p), p.fuel_station)

\* A terrain drawn into the columns of a station that is entering the
\* screen has been parked, and a hazard has been placed on screen while the
\* station is at the top.
C6_Witness ==
  /\ \E p \in placed :
       /\ p.pool = "terrain"
       /\ C6_sprite(p).y = LCD_Y + 1
       /\ p.fuel_station.y < 0
       /\ C6_overlap_x(C6_sprite(p), p.fuel_station)
  /\ \E p \in placed :
       /\ p.pool = "hazard"
       /\ C6_sprite(p).y < 0
       /\ p.fuel_station.y < 0
       /\ p.fuel_station.x > 0

(***************************************************************************)
(* Fuel, speed and condition.                                              *)
(***************************************************************************)
\* C7: at every update boundary of a session 0 <= fuel <= FUEL_MAX and
\* 0 <= speed <= SPEED_MAX, whatever the inputs, the potentiometer, the
\* refuels and the game steps; 0 <= condition <= 100, and condition never
\* increases within a session.
C7_ResourceBounds ==
  /\ [](/\ 0 <= fuel /\ fuel <= FUEL_MAX
        /\ 0 <= speed /\ speed <= SPEED_MAX * SPEED_SCALE
        /\ 0 <= condition /\ condition <= 100)
  /\ [][game_screen = GAME_SCREEN => condition' <= condition]_vars

\* The ceiling has cut the speed of an accelerating car (potentiometer at
\* mid range) while fuel has been burnt.
C7_Witness ==
  /\ game_screen = GAME_SCREEN
  /\ last = "update"
  /\ state["button_right"] # 0
  /\ pot0 = ADC_RANGE \div 2
  /\ speed = speed_limit(Cur, pot0) * SPEED_SCALE
  /\ speed < SPEED_MAX * SPEED_SCALE
  /\ fuel < FUEL_MAX

\* C10 (as the code has it): on the unpaused Game screen, with the brake
\* held on every update, speed is 0 after 40 updates at the latest (the
\* brake takes 10/40 per update), an update with the brake held keeps a
\* speed of 0 at 0, and speed is never negative.
C10_BrakeToZero ==
  /\ []((game_screen = GAME_SCREEN /\ brake_updates >= 40) => speed = 0)
  /\ [](speed >= 0)
  /\ [][(brake_updates' > brake_updates /\ speed = 0) => speed' = 0]_vars

\* Forty updates with the brake held have just brought the speed to 0.
C10_Witness ==
  /\ game_screen = GAME_SCREEN
  /\ last = "update"
  /\ brake_updates = 40
  /\ speed = 0
  /\ state["button_left"] # 0

\* C10 as the specification states it: speed is 0 after 6 updates with the
\* brake held.
C10_SixUpdates ==
  (game_screen = GAME_SCREEN /\ brake_updates >= 6) => speed = 0

(***************************************************************************)
(* The session setup.                                                      *)
(***************************************************************************)
\* C8: every transition into the Game screen, from Start or from GameOver,
\* leaves condition = 100, fuel = 100, speed = SPEED_MAX, distance = 0, the
\* game unpaused, the game timer counter 0, every road[y] at the same
\* centred offset, the player car on the road at its start row, and the
\* fuel station entirely off screen.
C8_SessionSetup ==
  [][(game_screen # GAME_SCREEN /\ game_screen' = GAME_SCREEN) =>
       /\ condition' = 100
       /\ fuel' = 100
       /\ speed' = SPEED_MAX * SPEED_SCALE
       /\ distance' = 0
       /\ game_paused' = 0
       /\ game_timer_counter' = 0
       /\ \A y \in 0..(LCD_Y - 1) : road'[y] = road'[0]
       /\ Abs((2 * road'[0] + road_width) - (DASHBOARD_BORDER_X + 1 + LCD_X - 1)) <= 2
       /\ player'.y = LCD_Y - car_height - 2
       /\ road'[player'.y] <= player'.x
       /\ player'.x + player'.width <= road'[player'.y] + road_width
       /\ \/ fuel_station'.x + fuel_station'.width <= 0
          \/ fuel_station'.y + fuel_station'.height <= 0
          \/ fuel_station'.y >= LCD_Y
          \/ fuel_station'.x >= LCD_X]_vars

\* A second session has just been set up: the controls have changed at
\* least three times since the program started, which takes a session that
\* ran out of fuel in between.
C8_Witness ==
  /\ game_screen = GAME_SCREEN
  /\ last = "update"
  /\ game_timer_counter = 0
  /\ speed_counter = 0
  /\ fuel = FUEL_MAX
  /\ loop_counter >= 3 * DEBOUNCE_N

(***************************************************************************)
(* The Start screen.                                                       *)
(***************************************************************************)
\* C9: a press on the Start screen is never lost: an update() that starts
\* on the Start screen with the debounced accelerate or brake state at 1
\* (the press was made on this screen, no session has run yet) takes the
\* screen to Game, wherever the TIMER0 interrupt fell in the update before.
C9_PressSeen ==
  [][(/\ pc = "update" /\ pc' = "copy"
      /\ game_screen = START_SCREEN
      /\ (state["button_left"] # 0 \/ state["button_right"] # 0))
       => game_screen' = GAME_SCREEN]_vars

(***************************************************************************)
(* The screens.                                                            *)
(***************************************************************************)
\* C11: game_screen is always Start, Game or GameOver; it changes only in
\* the main loop's update (through change_screen), never in an interrupt;
\* and the only changes are Start -> Game on a rising edge of accelerate or
\* brake, Game -> GameOver in a game step that finds fuel <= 0 or brings the
\* finish line to 0, GameOver -> Start on a brake edge and GameOver -> Game
\* on an accelerate edge.  Game -> Start and Start -> GameOver never occur.
C11_ScreenMachine ==
  /\ [](game_screen \in {START_SCREEN, GAME_SCREEN, GAMEOVER_SCREEN})
  /\ [][game_screen' # game_screen =>
         /\ last' = "main"
         /\ \/ /\ game_screen = START_SCREEN /\ game_screen' = GAME_SCREEN
               /\ Edge(Cur, "button_left") \/ Edge(Cur, "button_right")
            \/ /\ game_screen = GAME_SCREEN /\ game_screen' = GAMEOVER_SCREEN
               /\ fuel <= 0 \/ finish_line' < 1
            \/ /\ game_screen = GAMEOVER_SCREEN /\ game_screen' = START_SCREEN
               /\ Edge(Cur, "button_left")
            \/ /\ game_screen = GAMEOVER_SCREEN /\ game_screen' = GAME_SCREEN
               /\ Edge(Cur, "button_right")]_vars

\* Back on the Start screen from GameOver, after a session that began on
\* the Start screen and ran out of fuel.
C11_Witness ==
  /\ game_screen = START_SCREEN
  /\ last = "main"
  /\ fuel <= 0
  /\ state["button_left"] # 0

(***************************************************************************)
(* Refuelling.                                                             *)
(***************************************************************************)
\* C12: immediately after any transition into the Game screen refuelling
\* is false, whatever it was when the previous session ended.
C12_LatchReset ==
  [][(game_screen # GAME_SCREEN /\ game_screen' = GAME_SCREEN) => ~refuelling']_vars

\* C13: once the refuel latch is set, if the brake stays held and the game
\* stays unpaused on the Game screen, fuel eventually reaches FUEL_MAX and
\* the latch clears.
C13_RefuelProgress ==
  (refuelling /\ game_screen = GAME_SCREEN)
    ~> \/ fuel = FUEL_MAX /\ ~refuelling
       \/ state["button_left"] = 0
       \/ game_paused # 0
       \/ game_screen # GAME_SCREEN

\* What the fuel burn of a game step leaves of the fuel.
C14_burnt ==
  IF U8(distance_counter + 1) > FUEL_FACTOR THEN fuel - 1 ELSE fuel

\* C14: the latch becomes true only in a game step in which the brake is
\* held, the car's box is flush against the left or right side of the fuel
\* station with its vertical extent inside the station's, and the speed is
\* under 3; the speed is 0 once the latch is set.  A game step that finds
\* the latch set with speed > 0 or the brake released clears the latch and
\* leaves fuel as the fuel burn alone makes it.
C14_LatchProtocol ==
  /\ [][(~refuelling /\ refuelling') =>
          /\ last' = "update"
          /\ steps_now(Cur)
          /\ state["button_left"] # 0
          /\ \/ player'.x + player'.width = fuel_station.x
             \/ fuel_station.x + fuel_station.width = player'.x
          /\ player'.y >= fuel_station.y
          /\ player'.y + player'.height <= fuel_station.y + fuel_station.height
          /\ speed < 3 * SPEED_SCALE
          /\ speed' = 0]_vars
  /\ [][(/\ refuelling /\ last' = "update" /\ steps_now(Cur)
         /\ (speed > 0 \/ state["button_left"] = 0)) =>
          /\ ~refuelling'
          /\ fuel' = C14_burnt]_vars
  /\ [](refuelling /\ state["button_left"] # 0 => speed = 0)

\* The latch has been set, the driver has let go of the brake and the car
\* is moving again: the next game step finds the latch set with speed > 0.
C14_Witness ==
  /\ refuelling
  /\ game_screen = GAME_SCREEN
  /\ state["button_left"] = 0
  /\ speed > 0
  /\ steps_now(Cur)

(***************************************************************************)
(* Collisions.                                                             *)
(***************************************************************************)
\* The player's box overlaps a terrain or a hazard sprite.
C15_overlap ==
  \/ \E i \in 0..(NUM_TERRAIN - 1) : check_sprite_collided(player, terrain[i])
  \/ \E i \in 0..(NUM_HAZARD - 1) : check_sprite_collided(player, hazard[i])

\* C15: a game step that runs while the player's box overlaps a terrain or
\* hazard sprite sets speed to 0, restores fuel to FUEL_MAX, takes 20 off
\* condition and puts the player back on the middle of the road; condition
\* reaching 0 moves the screen to GameOver.
C15_CollisionHandled ==
  [][(last' = "game_screen_step" /\ game_screen = GAME_SCREEN /\ C15_overlap) =>
       /\ speed' = 0
       /\ fuel' = FUEL_MAX
       /\ condition' = Max(condition - 20, 0)
       /\ player'.x = (road_width \div 2) + road[player.y] - (car_width \div 2) + 1
       /\ (condition' = 0 => game_screen' = GAMEOVER_SCREEN)]_vars

(***************************************************************************)
(* The placement draws.                                                    *)
(***************************************************************************)
\* C16: every random x draw of terrain_reset and hazard_reset is taken
\* modulo a range size max_x + 1 - min_x of at least 1, never modulo 0 or
\* a negative number (the other draws of the session are modulo constants).
C16_RangesDefined == \A d \in draws : d.n >= 1

(***************************************************************************)
(* The road at a fuel station.                                             *)
(***************************************************************************)
\* C17 (as the code has it): from a fuel-station spawn the road runs
\* straight for fuel_station_height + 6 = 14 game steps, the spawn's own
\* included, which brings the station's top edge to row 3: no road_step
\* changes the top offset in those steps, and road_direction is Straight
\* until the last of them draws the next section.
C17_StraightAtSpawn ==
  [][(/\ last' = "game_screen_step"
      /\ fuel_station'.x > 0
      /\ fuel_station'.y >= 0 - fuel_station_height - 2
      /\ fuel_station'.y <= 3) =>
       /\ road'[0] = road[0]
       /\ fuel_station'.y < 3 => road_direction' = ROAD_STRAIGHT]_vars

\* The station's top edge has reached row 3 and the step has drawn a
\* curve for the next section.
C17_Witness ==
  /\ last = "game_screen_step"
  /\ fuel_station.x > 0
  /\ fuel_station.y = 3
  /\ road_direction # ROAD_STRAIGHT
  /\ road[0] = road[fuel_station_height + 5]

\* C17 as the specification states it: from a fuel-station spawn until the
\* station has scrolled off the bottom of the screen road_direction stays
\* Straight and no road_step changes the top offset.
C17_StraightOnScreen ==
  [][(/\ last' = "game_screen_step"
      /\ fuel_station'.x > 0
      /\ fuel_station'.y >= 0 - fuel_station_height - 2
      /\ fuel_station'.y < LCD_Y) =>
       /\ road'[0] = road[0]
       /\ road_direction' = ROAD_STRAIGHT]_vars

(***************************************************************************)
(* The pacing of the main loop (main, lines 331-340): t is taken from      *)
(* elapsed_time(loop_counter), update() and draw() run, and the loop       *)
(* polls elapsed_time(loop_counter) - t < time_step.  Time is counted in   *)
(* counts of timer 0 (TIMER0_PRESCALE clock cycles each); update() and     *)
(* draw() take none.                                                       *)
(***************************************************************************)
CPU_FREQ == 8000000
TIMER0_PRESCALE == 256
loop_freq == 60
\* The counts of timer 0 between two overflows (the 256.0 of elapsed_time).
TIMER0_COUNTS == 256

\* elapsed_time(timer_counter), in counts of timer 0:
\* timer_counter * 256.0 + TCNT0.
elapsed_time(timer_counter, count) == timer_counter * TIMER0_COUNTS + count

\* elapsed_time(loop_counter) - t < time_step, for a difference of d counts:
\* d * TIMER0_PRESCALE / CPU_FREQ < 1 / loop_freq.
pacing(d) ==
  IF d < 0 THEN TRUE ELSE d * TIMER0_PRESCALE * loop_freq < CPU_FREQ

\* How many counts late the poll may find the time passed: the rounding of
\* the 32-bit doubles near the top of the counter's range and the time one
\* poll takes.
PaceSlack == 3
\* An idle Start screen, this many counts after the loop began: loop_counter
\* is 65532 and TCNT0 is 8.
PaceFrom == 16776200
MaxPaceTicks == 6
MaxPaceOps == 2400

\* The TIMER0 overflows since the iteration took t.
ticks_waited == U16(loop_counter - main_t \div TIMER0_COUNTS)

InitPace ==
  \E count \in {0, PaceFrom} :
    InitFrom([Boot EXCEPT !.loop_counter = count \div TIMER0_COUNTS], {},
             ADC_MAX, count % TIMER0_COUNTS)

\* The head of an iteration: t = elapsed_time(loop_counter), update(), draw().
PaceBegin ==
  /\ pc = "update"
  /\ main_t' = elapsed_time(loop_counter, TCNT0)
  /\ \E t \in update(Cur, pot0) : Commit(t)
  /\ pc' = "wait"
  /\ last' = "update"
  /\ ops' = ops + 1
  /\ UNCHANGED <<TCNT0, pins, pot0, raw_samples, brake_updates>>

\* A poll that finds the time passed: the iteration ends.
PaceEnd ==
  /\ pc = "wait"
  /\ ~pacing(elapsed_time(loop_counter, TCNT0) - main_t)
  /\ pc' = "update"
  /\ last' = "main"
  /\ ops' = ops + 1
  /\ UNCHANGED <<state, prev_state, history, condition, fuel, speed, distance,
                 finish_line, distance_counter, speed_counter, game_over_loss,
                 game_timer_counter, game_paused, loop_counter, player, road,
                 road_counter, road_curve, road_direction, road_section_length,
                 terrain, hazard, fuel_station, fuel_station_counter,
                 refuelling, game_screen, rand_next, rand_free, placed, draws,
                 rolls, usb_out, usb_serial, host, TCNT0, main_t, pins, pot0,
                 raw_samples, brake_updates>>

\* Timer 0 counts on while the loop polls; at the top it overflows into
\* TIMER0_OVF_vect.
PaceCount ==
  /\ pc = "wait"
  /\ pacing(elapsed_time(loop_counter, TCNT0) - main_t - PaceSlack)
  /\ ticks_waited <= MaxPaceTicks
  /\ TCNT0' = (TCNT0 + 1) % TIMER0_COUNTS
  /\ IF TCNT0' = 0
       THEN /\ Commit(TIMER0_OVF_vect(Cur, pins))
            /\ raw_samples' =
                 [c \in Controls |-> Sampled(raw_samples[c], pins[c])]
            /\ last' = "TIMER0_OVF_vect"
       ELSE /\ Commit(Cur)
            /\ last' = "TCNT0"
            /\ UNCHANGED raw_samples
  /\ ops' = ops + 1
  /\ UNCHANGED <<main_t, pins, pot0, pc, brake_updates>>

NextPace ==
  \/ ops < MaxPaceOps /\ PaceBegin
  \/ ops < MaxPaceOps /\ PaceEnd
  \/ ops < MaxPaceOps /\ PaceCount

SpecPace == InitPace /\ [][NextPace]_vars

\* C18: in every iteration of the main loop the wait that follows update
\* and draw ends once 1/loop_freq seconds of timer counts have passed since
\* the iteration began: the loop is never found waiting with more than 3
\* TIMER0 overflows since then, also when loop_counter wraps meanwhile.
C18_WaitBounded == pc = "wait" => ticks_waited <= 3

(***************************************************************************)
(* The two counters of TIMER0_OVF_vect.                                    *)
(***************************************************************************)
\* C19: every TIMER0 overflow adds one to loop_counter, whatever the screen
\* and the pause state; it adds one to game_timer_counter when the Game
\* screen is active and the game is not paused, and leaves it unchanged
\* when the game is paused or the screen is Start or GameOver.  (A step of
\* the model is one overflow or DEBOUNCE_N overflows in a row.)
C19_TimerGating ==
  [][last' = "TIMER0_OVF_vect" =>
       LET n == U16(loop_counter' - loop_counter)
       IN  /\ n \in {1, DEBOUNCE_N}
           /\ game_timer_counter' =
                IF game_screen = GAME_SCREEN /\ game_paused = 0
                  THEN U16(game_timer_counter + n)
                  ELSE game_timer_counter
           /\ game_screen' = game_screen
           /\ game_paused' = game_paused]_vars

\* Overflows have fallen on the paused Game screen, after others had fallen
\* on the running one.
C19_Witness ==
  /\ last = "TIMER0_OVF_vect"
  /\ game_screen = GAME_SCREEN
  /\ game_paused # 0
  /\ game_timer_counter > 0
  /\ loop_counter > game_timer_counter

(***************************************************************************)
(* Who writes the controls' variables.                                     *)
(***************************************************************************)
\* The globals with every history replaced by its complement.
C20_other_history ==
  [Cur EXCEPT !.history = [c \in Controls |-> mask - @[c]]]

\* C20: the main loop neither reads nor writes a *_history variable and
\* does not write a debounced *_state variable: update() gives the same
\* results whatever the histories hold and leaves histories and states as
\* they were, writing its prev_*_state copies from the states; the TIMER0
\* interrupt, the only writer of the histories and the states, leaves the
\* prev_*_state copies alone.
C20_SingleWriter ==
  /\ [](pc = "update" =>
          update(C20_other_history, pot0) =
            {[t EXCEPT !.history = C20_other_history.history] :
               t \in update(Cur, pot0)})
  /\ [][last' \in {"update", "TIMER1_COMPA_vect"} =>
          /\ state' = state
          /\ history' = history]_vars
  /\ [][last' = "update" => prev_state' = state]_vars
  /\ [][last' = "TIMER0_OVF_vect" => prev_state' = prev_state]_vars

\* An update on the Game screen has copied the held accelerate button,
\* which the interrupt had set.
C20_Witness ==
  /\ last = "update"
  /\ game_screen = GAME_SCREEN
  /\ state["button_right"] = 1
  /\ prev_state["button_right"] = 1
  /\ history["button_right"] = mask
  /\ speed > 0

(***************************************************************************)
(* The game step and the speed.                                            *)
(***************************************************************************)
\* C21: on the Game screen, from a state with speed 0 and speed_counter not
\* past SPEED_THRESH no update and no interrupt runs a game step: fuel,
\* distance, the road and the terrain, hazard and fuel-station sprites are
\* left as they were, and speed_counter stays where it is, so this goes on
\* for as long as speed is 0.
C21_ZeroSpeedNoStep ==
  [][(game_screen = GAME_SCREEN /\ speed = 0 /\ ~step_due(Cur)) =>
       /\ fuel' = fuel
       /\ distance' = distance
       /\ distance_counter' = distance_counter
       /\ road' = road
       /\ terrain' = terrain
       /\ hazard' = hazard
       /\ fuel_station' = fuel_station
       /\ speed_counter' = speed_counter]_vars

\* The brake has held the speed at 0 over several updates and TIMER1
\* interrupts of a session that had made game steps before.
C21_Witness ==
  /\ game_screen = GAME_SCREEN
  /\ game_paused = 0
  /\ last = "TIMER1_COMPA_vect"
  /\ speed = 0
  /\ brake_updates >= 42
  /\ distance_counter > 0
  /\ speed_counter > 0

(***************************************************************************)
(* SpecSave: the start of a session, update by update.  The driver         *)
(* accelerates, then at any moment brakes or lets go, at any moment        *)
(* pauses with the centre stick, and at any moment pushes the stick up to  *)
(* save.                                                                   *)
(***************************************************************************)
MaxSaveOps == 44

InitSave == \E pot \in DrivePots : InitAt(Boot, {}, pot)

HoldSave ==
  /\ pc = "update"
  /\ \/ /\ game_screen = START_SCREEN
        /\ pins = Pressed({})
        /\ Hold(Pressed({"button_right"}))
     \/ /\ game_screen = GAME_SCREEN
        /\ game_paused = 0
        /\ pins = Pressed({"button_right"})
        /\ \E P \in {{}, {"button_left"}, {"stick_centre"}} : Hold(Pressed(P))
     \/ /\ game_screen = GAME_SCREEN
        /\ game_paused = 0
        /\ pins \in {Pressed({}), Pressed({"button_left"})}
        /\ Hold(Pressed({"stick_centre"}))
     \/ /\ game_screen = GAME_SCREEN
        /\ game_paused # 0
        /\ pins = Pressed({"stick_centre"})
        /\ Hold(Pressed({"stick_up"}))

NextSave ==
  \/ ops < MaxSaveOps /\ ~Idle /\ Update
  \/ ops < MaxSaveOps /\ ~Idle /\ Tick1
  \/ ops < MaxSaveOps /\ HoldSave

SpecSave == InitSave /\ [][NextSave]_vars

\* The characters c of a text.
count_of(text, c) == Cardinality({i \in 1..Len(text) : text[i] = c})

\* C22: the latest message on the serial line is its command byte, its
\* line-count byte and then exactly line-count lines, each ended by a
\* newline; so is the Save message (command 1) of game_state_save.
C22_MessageFraming ==
  /\ count_of(usb_out.text, "\n") = usb_out.line_num
  /\ usb_out.text # << >> => usb_out.text[Len(usb_out.text)] = "\n"

(***************************************************************************)
(* The sections of the road.                                               *)
(***************************************************************************)
\* The step has spawned the fuel station: it is back above the screen.
C23_spawn == fuel_station'.y < fuel_station.y

\* The section length road_step finds: fuel_station_reset has set it in a
\* step that spawns the station.
C23_length ==
  IF C23_spawn THEN fuel_station_height + 6 ELSE road_section_length

\* C23: a game step takes one off road_section_length; exactly when that
\* makes it 0 the step draws a direction from {Left, Right}, a road_curve
\* from ROAD_CURVE_MIN..ROAD_CURVE_MAX and a length from
\* ROAD_SECTION_MIN..ROAD_SECTION_MAX and sets road_counter to 0, and
\* otherwise it leaves curve and direction alone (a fuel-station spawn sets
\* the direction Straight).  So in a session 1 <= road_section_length <= 35
\* and 1 <= road_curve <= 3, the test for a length above ROAD_SECTION_MAX
\* never ends a section, and the direction is Straight only from the
\* session setup or a fuel-station spawn to the end of that section.
C23_Sections ==
  /\ [](game_screen = GAME_SCREEN =>
          /\ road_section_length \in 1..ROAD_SECTION_MAX
          /\ road_curve \in ROAD_CURVE_MIN..ROAD_CURVE_MAX
          /\ road_direction \in {ROAD_LEFT, ROAD_RIGHT, ROAD_STRAIGHT})
  /\ [][last' = "game_screen_setup" =>
          road_direction' = ROAD_STRAIGHT /\ road_curve' = ROAD_CURVE_MIN]_vars
  /\ [][(last' = "game_screen_step" /\ game_screen' = GAME_SCREEN) =>
          IF C23_length = 1
            THEN /\ road_direction' \in {ROAD_LEFT, ROAD_RIGHT}
                 /\ road_curve' \in ROAD_CURVE_MIN..ROAD_CURVE_MAX
                 /\ road_section_length' \in ROAD_SECTION_MIN..ROAD_SECTION_MAX
                 /\ road_counter' = 0
            ELSE /\ road_section_length' = C23_length - 1
                 /\ road_curve' = road_curve
                 /\ road_direction' =
                      IF C23_spawn THEN ROAD_STRAIGHT ELSE road_direction]_vars

\* A step has just ended a section and drawn the stiffest curve for the
\* next one, after the first fuel station was spawned.
C23_Witness ==
  /\ last = "game_screen_step"
  /\ road_direction \in {ROAD_LEFT, ROAD_RIGHT}
  /\ road_curve = ROAD_CURVE_MAX
  /\ road_section_length >= ROAD_SECTION_MIN
  /\ road_counter = 0
  /\ road[0] = road[1]
  /\ fuel_station.x > 0

(***************************************************************************)
(* The stiffness of the curves.                                            *)
(***************************************************************************)
\* C24: a game step moves the top offset sideways only when the moved
\* offset keeps the road in bounds and road_counter, one more than at the
\* step before, exceeds road_curve, and it then starts road_counter again
\* at 0; since road_curve >= 1 the step after a sideways move makes none,
\* and in every state road[y] and road[y + 2] differ by at most 1.
C24_CurveResistance ==
  /\ [](\A y \in 0..(LCD_Y - 3) : Abs(road[y] - road[y + 2]) <= 1)
  /\ [][(last' = "game_screen_step" /\ road'[0] # road[0]) =>
          /\ road_in_bounds(road'[0])
          /\ U8(road_counter + 1) > road_curve
          /\ road_curve >= 1
          /\ road_counter' = 0]_vars
  /\ [][(last' = "game_screen_step" /\ road[0] # road[1]) =>
          road'[0] = road[0]]_vars

\* With road_curve at 1 the road has moved sideways on every other step.
C24_Witness ==
  /\ last = "game_screen_step"
  /\ road_curve = ROAD_CURVE_MIN
  /\ road[0] # road[1]
  /\ road[1] = road[2]
  /\ road[2] # road[3]
  /\ road[0] # road[2]

(***************************************************************************)
(* One game step per update, and everything scrolls together.              *)
(***************************************************************************)
\* The sprite one scanline further down.
C25_down(sprite) == [sprite EXCEPT !.y = @ + 1]

\* C25: an update on the Game screen runs a game step exactly when the
\* game is not paused (once the update has seen the centre stick) and
\* speed_counter is above SPEED_THRESH, and then runs one step only
\* (distance_counter moves on by one) and leaves speed_counter at 0.  The
\* step moves every row of the road one scanline down, and with it every
\* terrain and hazard sprite that the step does not re-place, and the fuel
\* station unless the step spawns it anew; an update without a step moves
\* none of them.
C25_SyncStep ==
  [][(last' = "update" /\ game_screen = GAME_SCREEN) =>
       IF game_paused' = 0
            /\ speed_counter > SPEED_THRESH * SPEED_SCALE * SPEED_FACTOR
         THEN /\ distance_counter' =
                   IF distance_counter + 1 > FUEL_FACTOR THEN 0
                   ELSE distance_counter + 1
              /\ speed_counter' = 0
              /\ \A y \in 1..(LCD_Y - 1) : road'[y] = road[y - 1]
              /\ \A i \in 0..(NUM_TERRAIN - 1) :
                   \/ \E p \in placed' : p.pool = "terrain" /\ p.index = i
                   \/ terrain'[i] = C25_down(terrain[i])
              /\ \A i \in 0..(NUM_HAZARD - 1) :
                   \/ \E p \in placed' : p.pool = "hazard" /\ p.index = i
                   \/ hazard'[i] = C25_down(hazard[i])
              /\ \/ fuel_station_counter < 1 /\ fuel_station.y > LCD_Y
                 \/ fuel_station' = C25_down(fuel_station)
         ELSE /\ distance_counter' = distance_counter
              /\ speed_counter' = speed_counter
              /\ road' = road
              /\ terrain' = terrain
              /\ hazard' = hazard
              /\ fuel_station' = fuel_station]_vars

\* An update has just run the session's second game step, which re-placed
\* one sprite and scrolled the others.
C25_Witness ==
  /\ last = "update"
  /\ game_screen = GAME_SCREEN
  /\ speed_counter = 0
  /\ distance_counter = 2
  /\ placed # {}
  /\ \E i \in 0..(NUM_TERRAIN - 1) :
       \A p \in placed : ~(p.pool = "terrain" /\ p.index = i)

C27_PauseToggle ==
  /\ [](game_paused \in {0, 1})
  /\ [][(last' = "update" /\ game_screen = GAME_SCREEN) =>
          game_paused' =
            IF prev_state["stick_centre"] = 0 /\ state["stick_centre"] = 1
              THEN 1 - game_paused ELSE game_paused]_vars
  /\ [][(last' = "update" /\ game_screen = GAME_SCREEN
            /\ prev_state["stick_centre"] # 0) =>
          game_paused' = game_paused]_vars
  /\ [][last' \in {"TIMER0_OVF_vect", "TIMER1_COMPA_vect"} =>
          game_paused' = game_paused]_vars

\* An update has seen the centre stick held, and has its copy of it: the
\* game is paused.
C27_Witness ==
  /\ last = "update"
  /\ game_screen = GAME_SCREEN
  /\ game_paused = 1
  /\ state["stick_centre"] = 1
  /\ prev_state["stick_centre"] = 1
  /\ usb_out.command = 0

(***************************************************************************)
(* SpecSteer: a session, update by update, in which the driver steers left *)
(* until the car has left the road, with accelerate held or coasting, and  *)
(* there lets go of the stick and accelerates, coasts or brakes.  The      *)
(* speed potentiometer has one of three settings.                          *)
(***************************************************************************)
MaxSteerOps == 1300

InitSteer == \E pot \in DrivePots : InitAt(Boot, {}, pot)

\* The first TIMER1 interrupt after a game step or the session setup has
\* just fallen.
AfterStep == last = "TIMER1_COMPA_vect" /\ speed_counter = speed

HoldSteer ==
  /\ pc = "update"
  /\ \/ /\ game_screen = START_SCREEN
        /\ pins = Pressed({})
        /\ Hold(Pressed({"button_right"}))
     \/ /\ game_screen = GAME_SCREEN
        /\ pins = Pressed({"button_right"})
        /\ AfterStep
        /\ distance_counter = 0
        /\ \E P \in {{"button_right", "stick_left"}, {"stick_left"}} :
             Hold(Pressed(P))
     \/ /\ game_screen = GAME_SCREEN
        /\ pins["stick_left"] = 1
        /\ AfterStep
        /\ player.x = RoadAt(Cur, player.y) - 1
        /\ \E P \in {{}, {"button_right"}, {"button_left"}} : Hold(Pressed(P))

NextSteer ==
  \/ ops < MaxSteerOps /\ ~Idle /\ Update
  \/ ops < MaxSteerOps /\ ~Idle /\ Tick1
  \/ ops < MaxSteerOps /\ HoldSteer

SpecSteer == InitSteer /\ [][NextSteer]_vars

(***************************************************************************)
(* The speed.                                                              *)
(***************************************************************************)
\* The car as an update leaves it is off the road as the update leaves it.
C28_offroad == offroad([road |-> road'], player')

\* max of player_speed_input, and the claim's floor(pot0 * max / 1024) + 1.
C28_max == IF C28_offroad THEN SPEED_OFFROAD_MAX ELSE SPEED_MAX

C28_ceiling == ((pot0 * C28_max) \div ADC_RANGE) + 1

\* C28: an update of the unpaused game (it ends with player_speed_input)
\* leaves speed <= floor(pot0 * max / 1024) + 1, with max = SPEED_OFFROAD_MAX
\* when the car is off the road and SPEED_MAX otherwise; the ceiling lies
\* in 1..max, so the speed of a car off the road is at most 3.
C28_SpeedCeiling ==
  [][(last' = "update" /\ game_screen = GAME_SCREEN /\ game_paused' = 0) =>
       /\ pot0 \in 0..ADC_MAX
       /\ C28_ceiling \in 1..C28_max
       /\ speed' <= C28_ceiling * SPEED_SCALE
       /\ C28_offroad => speed' <= SPEED_OFFROAD_MAX * SPEED_SCALE]_vars

\* The car has left the road with accelerate held and the potentiometer at
\* its top: the update has taken the speed down to 3.
C28_Witness ==
  /\ last = "update"
  /\ game_screen = GAME_SCREEN
  /\ offroad(Cur, player)
  /\ pot0 = ADC_MAX
  /\ state["button_right"] # 0
  /\ speed = SPEED_OFFROAD_MAX * SPEED_SCALE

(***************************************************************************)
(* SpecCoast: the start of a session, update by update, with the main loop *)
(* and the TIMER1 interrupt running on for ever (weakly fair).  The driver *)
(* lets go of accelerate, or changes to the brake, after the first update  *)
(* of the session, and may let go of the brake once the car stands.  The   *)
(* session is followed until CoastFuel of fuel is left.                    *)
(***************************************************************************)
CoastFuel == 94

InitCoast == \E pot \in DrivePots : InitAt(Boot, {}, pot)

HoldCoast ==
  /\ pc = "update"
  /\ \/ /\ game_screen = START_SCREEN
        /\ pins = Pressed({})
        /\ Hold(Pressed({"button_right"}))
     \/ /\ game_screen = GAME_SCREEN
        /\ pins = Pressed({"button_right"})
        /\ AfterStep
        /\ distance_counter = 0
        /\ \E P \in {{}, {"button_left"}} : Hold(Pressed(P))
     \/ /\ game_screen = GAME_SCREEN
        /\ pins = Pressed({"button_left"})
        /\ last = "TIMER1_COMPA_vect"
        /\ speed = 0
        /\ Hold(Pressed({}))

UpdateCoast ==
  /\ ~Idle
  /\ game_screen = GAME_SCREEN => fuel > CoastFuel
  /\ UpdateStep
  /\ Quiet("update")

Tick1Coast == ~Idle /\ Tick1Step /\ Quiet("TIMER1_COMPA_vect")

NextCoast ==
  \/ UpdateCoast
  \/ Tick1Coast
  \/ HoldCoast

SpecCoast ==
  InitCoast /\ [][NextCoast]_vars /\ WF_vars(UpdateCoast) /\ WF_vars(Tick1Coast)

\* The speed the two closing tests of player_speed_input make of sp.
C29_capped(sp) == Min(Max(sp, 0), C28_ceiling * SPEED_SCALE)

\* The widest step of a coasting car: 10/80.
C29_band == (10 * SPEED_SCALE) \div 80

C29_near_one == Abs(speed - SPEED_SCALE) <= C29_band

\* The driver holds nothing, the debounced states show it, and the ceiling
\* of the car where it is lies above 1.
C29_coasting ==
  /\ game_screen = GAME_SCREEN
  /\ game_paused = 0
  /\ pins = Pressed({})
  /\ \A c \in Controls : state[c] = 0
  /\ LET max == IF offroad(Cur, player) THEN SPEED_OFFROAD_MAX ELSE SPEED_MAX
     IN  ((pot0 * max) \div ADC_RANGE) + 1 > 1

C30_step ==
  /\ game_screen = GAME_SCREEN
  /\ \/ last' = "game_screen_step"
     \/ /\ last' = "update"
        /\ game_paused' = 0
        /\ speed_counter > SPEED_THRESH * SPEED_SCALE * SPEED_FACTOR

\* Where a reset with y_bot = 0 leaves a sprite of the pool: its bottom on
\* row 0, or parked on row LCD_Y + 1 when the placement was rejected.
C30_top(pool, sprite) ==
  \/ sprite.y = LCD_Y + 1
  \/ /\ pool = "terrain"
     /\ \E type \in 0..(NUM_TERRAIN_TYPES - 1) :
          sprite.y = 0 - terrain_image(type).height
  \/ /\ pool = "hazard"
     /\ \E type \in 0..(NUM_HAZARD_TYPES - 1) :
          sprite.y = 0 - hazard_image(type).height

\* The step re-placed sprite i of the pool, with y_bot = 0.
C30_replaced(pool, i) ==
  \E p \in placed' :
    /\ p.pool = pool
    /\ p.index = i
    /\ C30_top(pool, IF pool = "terrain" THEN p.terrain[i] ELSE p.hazard[i])

\* C30: in a game step every terrain sprite that the step moves past LCD_Y,
\* one parked at LCD_Y + 1 by a rejected placement included, is re-placed
\* with y_bot = 0 in that step.  A hazard that the step moves past LCD_Y
\* gets one roll of 0..99: below HAZARD_SPAWN_CHANCE it is re-placed with
\* y_bot = 0, otherwise it only moves one row further down; a hazard still
\* on the screen gets no roll and is not re-placed.  During a session a
\* hazard below LCD_Y comes back above it only in a step whose roll for it
\* is below HAZARD_SPAWN_CHANCE.
C30_RespawnPolicy ==
  /\ [][C30_step =>
          /\ \A i \in 0..(NUM_TERRAIN - 1) :
               terrain[i].y + 1 > LCD_Y => C30_replaced("terrain", i)
          /\ \A i \in 0..(NUM_HAZARD - 1) :
               IF hazard[i].y + 1 > LCD_Y
                 THEN \E r \in rolls' :
                        /\ r.index = i
                        /\ r.roll \in 0..99
                        /\ \A q \in rolls' : q.index = i => q = r
                        /\ IF r.roll < HAZARD_SPAWN_CHANCE
                             THEN C30_replaced("hazard", i)
                             ELSE /\ hazard'[i] = C25_down(hazard[i])
                                  /\ \A p \in placed' :
                                       ~(p.pool = "hazard" /\ p.index = i)
                 ELSE /\ \A r \in rolls' : r.index # i
                      /\ \A p \in placed' : ~(p.pool = "hazard" /\ p.index = i)]_vars
  /\ [][\A i \in 0..(NUM_HAZARD - 1) :
          (game_screen = GAME_SCREEN /\ hazard[i].y > LCD_Y /\ hazard'[i].y <= LCD_Y)
            => \E r \in rolls' : r.index = i /\ r.roll < HAZARD_SPAWN_CHANCE]_vars

\* A game step has just re-placed one hazard on a roll below
\* HAZARD_SPAWN_CHANCE and has left the other, whose roll was not, further
\* below the screen.
C30_Witness ==
  /\ last = "game_screen_step"
  /\ \E r \in rolls :
       /\ r.roll < HAZARD_SPAWN_CHANCE
       /\ \E p \in placed : p.pool = "hazard" /\ p.index = r.index
  /\ \E r \in rolls :
       /\ r.roll >= HAZARD_SPAWN_CHANCE
       /\ hazard[r.index].y > LCD_Y + 1

(***************************************************************************)
(* Terrain and the road.                                                   *)
(***************************************************************************)
\* The padding terrain_reset keeps between a terrain of this height and the road.
C31_padding(sprite) == sprite.height \div ROAD_CURVE_MIN

\* The row y_bot a re-placed terrain was placed for: a parked sprite has lost
\* it, and the game steps always pass 0.
C31_y_bot(sprite) ==
  IF sprite.y = LCD_Y + 1 THEN 0 ELSE sprite.y + sprite.height

\* The sprite's columns and the columns road[r] .. road[r] + road_width share one.
C31_on_ribbon(sprite, r) ==
  ~((sprite.x + sprite.width - 1 < road[r]) \/ (sprite.x > road[r] + road_width))

\* C31: every terrain sprite that the latest game step or session setup
\* re-placed lay, when terrain_reset returned, inside the playable area
\* (DASHBOARD_BORDER_X < x and x + width <= LCD_X - 2) and at least its
\* padding away from the road at row y_bot, on one side or the other; and
\* in every state no terrain sprite shares a
\* column with the road ribbon on a screen row it occupies.
C31_TerrainOffRoad ==
  /\ \A p \in placed :
       p.pool = "terrain" =>
         LET sprite == p.terrain[p.index]
             rd == p.road[C31_y_bot(sprite)]
         IN  /\ DASHBOARD_BORDER_X < sprite.x
             /\ sprite.x + sprite.width <= LCD_X - 2
             /\ \/ sprite.x + sprite.width + C31_padding(sprite) <= rd
                \/ sprite.x >= rd + road_width + C31_padding(sprite)
  /\ \A i \in 0..(NUM_TERRAIN - 1) :
       \A r \in 0..(LCD_Y - 1) :
         (terrain[i].y <= r /\ r < terrain[i].y + terrain[i].height)
           => ~C31_on_ribbon(terrain[i], r)

(***************************************************************************)
(* The end of a session.                                                   *)
(***************************************************************************)
\* C32: the Game screen is left only in a game step and only for the
\* GameOver screen: with game_over_loss true when the step started with
\* fuel <= 0 and the finish line is still ahead, with game_over_loss false
\* when the step took finish_line to 0.  A game step that starts with
\* fuel <= 0 or takes finish_line to 0 does leave the Game screen.  On the
\* GameOver screen game_over_loss is false exactly when finish_line = 0 and
\* distance = 250.
C32_GameEnd ==
  /\ [][(game_screen = GAME_SCREEN /\ game_screen' # GAME_SCREEN) =>
          /\ C30_step
          /\ game_screen' = GAMEOVER_SCREEN
          /\ IF finish_line' < 1
               THEN game_over_loss' = FALSE
               ELSE fuel <= 0 /\ game_over_loss' = TRUE]_vars
  /\ [][(C30_step /\ (fuel <= 0 \/ finish_line' < 1)) =>
          game_screen' = GAMEOVER_SCREEN]_vars
  /\ [](game_screen = GAMEOVER_SCREEN =>
          (game_over_loss = FALSE <=> (finish_line = 0 /\ distance = 250)))

\* The session has ended on the GameOver screen with the tank empty, the
\* finish line ahead and the loss flagged.
C32_Witness ==
  /\ game_screen = GAMEOVER_SCREEN
  /\ fuel <= 0
  /\ finish_line > 0
  /\ game_over_loss = TRUE

(***************************************************************************)
(* Fuel and distance.                                                      *)
(***************************************************************************)
\* C33: a game step that finds distance_counter at FUEL_FACTOR, the fourth
\* since the setup or since the last such step, takes 1 from fuel (unless
\* the car is refuelling), adds 1 to distance, takes 1 from finish_line and
\* clears distance_counter; every other game step adds 1 to
\* distance_counter and leaves the three alone, and so does everything else
\* that happens on the Game screen.  In every state of a session
\* distance + finish_line = 250, with both inside their eight bits.
C33_FuelAndDistance ==
  /\ [][C30_step =>
          IF distance_counter = FUEL_FACTOR
            THEN /\ refuelling = FALSE => fuel' = fuel - 1
                 /\ distance' = distance + 1
                 /\ finish_line' = finish_line - 1
                 /\ distance_counter' = 0
            ELSE /\ refuelling = FALSE => fuel' = fuel
                 /\ distance' = distance
                 /\ finish_line' = finish_line
                 /\ distance_counter' = distance_counter + 1]_vars
  /\ [][(game_screen = GAME_SCREEN /\ ~C30_step) =>
          /\ fuel' = fuel
          /\ distance' = distance
          /\ finish_line' = finish_line
          /\ distance_counter' = distance_counter]_vars
  /\ [](game_screen # START_SCREEN =>
          /\ distance + finish_line = 250
          /\ distance \in 0..250
          /\ finish_line \in 0..250
          /\ distance_counter \in 0..FUEL_FACTOR)

\* An update has just run the game step that took the second unit of fuel.
C33_Witness ==
  /\ game_screen = GAME_SCREEN
  /\ last = "update"
  /\ distance_counter = 0
  /\ distance = 2
  /\ finish_line = 248
  /\ fuel = FUEL_MAX - 2

(***************************************************************************)
(* SpecWheel: a drive at full speed with the stick free.  Before every     *)
(* game step the driver holds the stick left, right or lets it go, long    *)
(* enough for the debounced states to follow.  The draws follow the        *)
(* generator seeded by srand.  Long enough for the car to reach both       *)
(* borders and to meet terrain, hazards and the first fuel station.        *)
(***************************************************************************)
MaxWheelSteps == 225

WheelHolds == {Pressed({}), Pressed({"stick_left"}), Pressed({"stick_right"})}

InitWheel == InitWith(Boot, {})

HoldWheel ==
  /\ game_screen = GAME_SCREEN
  /\ last # "TIMER0_OVF_vect"
  /\ \E b \in WheelHolds : Hold(b)

StepWheel ==
  /\ last = "TIMER0_OVF_vect"
  /\ (distance * (FUEL_FACTOR + 1)) + distance_counter < MaxWheelSteps
  /\ GameStep

NextWheel ==
  \/ ChangeToGame
  \/ HoldWheel
  \/ StepWheel

SpecWheel == InitWheel /\ [][NextWheel]_vars

(***************************************************************************)
(* The car's moves.                                                        *)
(***************************************************************************)
\* The car at column x would collide with a terrain, a hazard or the fuel
\* station as they stand before the step.
C34_collides(x) == check_collision(Cur, [player EXCEPT !.x = x])

\* The move the debounced stick asks of a game step.
C34_asked ==
  IF state["stick_left"] # 0 THEN 0 - 1
  ELSE IF state["stick_right"] # 0 THEN 1
  ELSE 0

\* C34: a game step changes player.x by -1, 0 or +1, in the direction the
\* stick asks for, and leaves player.y alone; a step that moves the car
\* puts it on a column where it collides with no terrain, hazard or fuel
\* station (as they stand when player_car_move runs), and a step whose move
\* is asked for, stays inside the borders and collides with nothing does
\* move the car.  Nothing but a game step moves the car during a session.
\* In every state of a session DASHBOARD_BORDER_X < player.x and
\* player.x + width <= LCD_X - 1.
C34_PlayerMove ==
  /\ [][C30_step =>
          /\ player'.x - player.x \in {0, C34_asked}
          /\ player'.y = player.y
          /\ player'.x # player.x => ~C34_collides(player'.x)
          /\ player'.x = player.x =>
               \/ C34_asked = 0
               \/ player.x + C34_asked <= DASHBOARD_BORDER_X
               \/ player.x + C34_asked + player.width > LCD_X - 1
               \/ C34_collides(player.x + C34_asked)]_vars
  /\ [][(game_screen = GAME_SCREEN /\ ~C30_step) => player' = player]_vars
  /\ [](game_screen # START_SCREEN =>
          /\ DASHBOARD_BORDER_X < player.x
          /\ player.x + player.width <= LCD_X - 1)

\* A game step has just left the car where it was although the stick asked
\* for a move inside the borders: on the column asked for the car would
\* have collided with a terrain sprite, which has since scrolled one row.
C34_Witness ==
  /\ last = "game_screen_step"
  /\ C34_asked # 0
  /\ DASHBOARD_BORDER_X < player.x + C34_asked
  /\ player.x + C34_asked + player.width <= LCD_X - 1
  /\ \E i \in 0..(NUM_TERRAIN - 1) :
       LET before == [terrain[i] EXCEPT !.y = @ - 1]
       IN  /\ \A p \in placed : ~(p.pool = "terrain" /\ p.index = i)
           /\ check_sprite_collided([player EXCEPT !.x = @ + C34_asked], before)
           /\ ~check_sprite_collided(player, before)

(***************************************************************************)
(* The fuel station's schedule.                                            *)
(***************************************************************************)
\* The row sprite_init and fuel_station_reset leave the station on once the
\* step that spawned it has scrolled it: game_screen_setup puts it on this
\* row outright.
C35_first_row == 0 - fuel_station_height - 2

\* C35: a game step respawns the fuel station exactly when it finds
\* fuel_station_counter at 0 (the decrement takes it below 0); the station
\* is then below the screen (y > LCD_Y), and the step redraws the counter
\* from FUEL_STATION_MIN .. FUEL_STAION_MAX.  Every other game step takes 1
\* from the counter and scrolls the station one row.  Between game steps
\* the counter is never below 0, and the steps since the last spawn (or
\* the setup) plus the counter are the value drawn there, so that spawns
\* are FUEL_STATION_MIN + 1 .. FUEL_STAION_MAX + 1 game steps apart.
C35_StationSchedule ==
  /\ [][C30_step =>
          IF fuel_station_counter = 0
            THEN /\ fuel_station.y > LCD_Y
                 /\ fuel_station'.y = C35_first_row
                 /\ fuel_station_counter' \in FUEL_STATION_MIN..FUEL_STAION_MAX
            ELSE /\ fuel_station_counter' = fuel_station_counter - 1
                 /\ fuel_station' = C25_down(fuel_station)]_vars
  /\ [](game_screen # START_SCREEN =>
          /\ fuel_station_counter >= 0
          /\ (fuel_station.y - C35_first_row) + fuel_station_counter
               \in FUEL_STATION_MIN..FUEL_STAION_MAX)

\* The station has spawned for the second time in the session: it is above
\* the screen at a step count no first spawn can have.
C35_Witness ==
  /\ game_screen = GAME_SCREEN
  /\ fuel_station.x > 0
  /\ fuel_station.y < 0
  /\ (distance * (FUEL_FACTOR + 1)) + distance_counter
       > FUEL_STAION_MAX + 1 + fuel_station_height + 3

(***************************************************************************)
(* The fuel station and the road's edge.                                   *)
(***************************************************************************)
\* road[0] as fuel_station_reset read it, from the x it gave the station:
\* x = road[0] - fuel_station_width + 1 on the left, road[0] + road_width
\* on the right.
C36_offset(left) ==
  IF left THEN fuel_station.x + fuel_station_width - 1
  ELSE fuel_station.x - road_width

\* The side had the room fuel_station_reset asks for.
C36_room(left) ==
  IF left THEN ~(C36_offset(left) - fuel_station_width <= DASHBOARD_BORDER_X)
  ELSE ~(C36_offset(left) + road_width + fuel_station_width >= LCD_X - 1)

\* C36: a fuel station that has spawned in the session lies inside the
\* playable area (x > DASHBOARD_BORDER_X and x + width <= LCD_X - 1) on a
\* side of the road that had room for it, flush with the road's edge as it
\* was at row 0 when the station spawned; until the station's top has
\* entered the screen the top of the road keeps that offset, and every
\* road row of the screen within the station's rows has that offset, as
\* long as the station has rows on the screen.
C36_StationFlush ==
  (game_screen # START_SCREEN /\ fuel_station.x > 0) =>
    /\ fuel_station.x > DASHBOARD_BORDER_X
    /\ fuel_station.x + fuel_station.width <= LCD_X - 1
    /\ \E left \in BOOLEAN :
         /\ C36_room(left)
         /\ fuel_station.y < 0 => road[0] = C36_offset(left)
         /\ \A r \in 0..(LCD_Y - 1) :
              (fuel_station.y <= r /\ r <= fuel_station.y + fuel_station.height)
                => road[r] = C36_offset(left)

\* The station stands fully on the screen beside a straight stretch while
\* the road above and below it has another offset.
C36_Witness ==
  /\ game_screen = GAME_SCREEN
  /\ fuel_station.x > 0
  /\ fuel_station.y > 0
  /\ fuel_station.y + fuel_station.height < LCD_Y - 1
  /\ road[fuel_station.y] = road[fuel_station.y + fuel_station.height]
  /\ road[0] # road[fuel_station.y]
  /\ road[LCD_Y - 1] # road[fuel_station.y]

(***************************************************************************)
(* Hazards and the road.                                                   *)
(***************************************************************************)
\* The two boxes share a pixel.
C37_overlap(a, b) ==
  /\ a.x < b.x + b.width
  /\ b.x < a.x + a.width
  /\ a.y < b.y + b.height
  /\ b.y < a.y + a.height

\* C37: every hazard that the latest game step or session setup re-placed
\* and did not park lay, when hazard_reset returned, strictly inside the
\* road ribbon at row y_bot: road[y_bot] + 1 <= x and
\* x + width <= road[y_bot] + road_width - 1.  No hazard that has not yet
\* scrolled past the bottom of the screen shares a pixel with the fuel
\* station.
C37_HazardOnRoad ==
  /\ \A p \in placed :
       (p.pool = "hazard" /\ p.hazard[p.index].y # LCD_Y + 1) =>
         LET sprite == p.hazard[p.index]
             rd == p.road[sprite.y + sprite.height]
         IN  /\ rd + 1 <= sprite.x
             /\ sprite.x + sprite.width <= rd + road_width - 1
  /\ \A i \in 0..(NUM_HAZARD - 1) :
       hazard[i].y <= LCD_Y => ~C37_overlap(hazard[i], fuel_station)

\* A game step has just placed a hazard on the last column of its range
\* while the fuel station, flush with the road's right edge, has rows in
\* common with it.
C37_Witness ==
  /\ last = "game_screen_step"
  /\ fuel_station.x > 0
  /\ \E p \in placed :
       /\ p.pool = "hazard"
       /\ hazard[p.index] = p.hazard[p.index]
       /\ hazard[p.index].y < 0
       /\ fuel_station.x = road[1] + road_width
       /\ hazard[p.index].x + hazard[p.index].width = fuel_station.x - 1
       /\ hazard[p.index].y + hazard[p.index].height > fuel_station.y
       /\ hazard[p.index].y < fuel_station.y + fuel_station.height

(***************************************************************************)
(* The host program: process() of server.c, which main calls for ever.     *)
(* It reads the serial line the game writes to.  A read waits until the    *)
(* bytes it asks for have arrived.                                         *)
(***************************************************************************)
\* The size process() passes to fgets.
LINE_SIZE == 100

NEWLINE == 10

\* The index of the first newline of a stream, 0 if it has none.
first_newline(stream) ==
  IF \E i \in 1..Len(stream) : stream[i] = NEWLINE
  THEN CHOOSE i \in 1..Len(stream) :
         /\ stream[i] = NEWLINE
         /\ \A j \in 1..(i - 1) : stream[j] # NEWLINE
  ELSE 0

\* How many bytes fgets(buffer, size, stream) takes: through the first
\* newline, and no more than size - 1.
fgets_length(stream, size) ==
  IF first_newline(stream) # 0 /\ first_newline(stream) <= size - 1
  THEN first_newline(stream)
  ELSE size - 1

\* fgets returns once a whole line, or size - 1 bytes, have arrived.
fgets_ready(stream, size) ==
  \/ first_newline(stream) # 0
  \/ Len(stream) >= size - 1

\* data[cnt][strcspn(data[cnt], "\n")] = 0: the line up to its newline.
strip_newline(line) ==
  IF first_newline(line) = 0 THEN line
  ELSE SubSeq(line, 1, first_newline(line) - 1)

\* char code = fgetc(usb_serial), at the top of process().
process_code(s) ==
  IF s.host.at = "code" /\ s.usb_serial # << >>
  THEN {[s EXCEPT !.usb_serial = Tail(@),
                  !.host = [at |-> "num_lines", code |-> Head(s.usb_serial),
                            num_lines |-> 0, cnt |-> 0, data |-> {},
                            mode |-> ""]]}
  ELSE {}

\* int num_lines = fgetc(usb_serial); char data[num_lines][100]; int cnt = 0.
process_num_lines(s) ==
  IF s.host.at = "num_lines" /\ s.usb_serial # << >>
  THEN {[s EXCEPT !.usb_serial = Tail(@),
                  !.host.at = "fgets",
                  !.host.num_lines = Head(s.usb_serial)]}
  ELSE {}

\* One evaluation of the condition of
\*   while((fgets(data[cnt], 100, usb_serial) != NULL) && cnt < num_lines)
\* and, where it holds, of the body.  fgets writes the line into data[cnt]
\* first; cnt is compared with num_lines afterwards.  A write into
\* data[num_lines] is outside the array: the line lands on whatever lies
\* behind it, which may or may not be the local code.
process_fgets(s) ==
  IF s.host.at = "fgets" /\ fgets_ready(s.usb_serial, LINE_SIZE)
  THEN LET k == fgets_length(s.usb_serial, LINE_SIZE)
           line == SubSeq(s.usb_serial, 1, k)
           rest == SubSeq(s.usb_serial, k + 1, Len(s.usb_serial))
           h == s.host
       IN IF h.cnt < h.num_lines
          THEN {[s EXCEPT !.usb_serial = rest,
                          !.host.data = @ \cup
                            {[index |-> h.cnt, line |-> strip_newline(line)]},
                          !.host.cnt = @ + 1]}
          ELSE {[s EXCEPT !.usb_serial = rest,
                          !.host.data = @ \cup
                            {[index |-> h.cnt, line |-> line]},
                          !.host.code = c,
                          !.host.at = "switch"] : c \in {h.code, line[1]}}
  ELSE {}

\* What the switch on code draws after "Mode:".
mode_of(code) ==
  IF code = SAVE THEN "Saving"
  ELSE IF code = DEBUG THEN "Debugging"
  ELSE ""

\* The for loop that draws the cnt lines, the switch on code, show_screen,
\* and the return to main, which calls process() again.
process_switch(s) ==
  IF s.host.at = "switch"
  THEN {[s EXCEPT !.host.at = "code", !.host.mode = mode_of(s.host.code)]}
  ELSE {}

\* A step of the host leaves the game as it is.
HostStep(t) ==
  /\ Commit(t)
  /\ Mark("process")
  /\ UNCHANGED <<pins, pot0, pc, raw_samples, brake_updates>>

ProcessCode == \E t \in process_code(Cur) : HostStep(t)
ProcessNumLines == \E t \in process_num_lines(Cur) : HostStep(t)
ProcessFgets == \E t \in process_fgets(Cur) : HostStep(t)
ProcessSwitch == \E t \in process_switch(Cur) : HostStep(t)

(***************************************************************************)
(* SpecHost: the session of SpecSave with the host program listening on    *)
(* the serial line.                                                        *)
(***************************************************************************)
MaxHostOps == 60

NextHost ==
  \/ ops < MaxSaveOps /\ ~Idle /\ Update
  \/ ops < MaxSaveOps /\ ~Idle /\ Tick1
  \/ ops < MaxSaveOps /\ HoldSave
  \/ ops < MaxHostOps /\ ProcessCode
  \/ ops < MaxHostOps /\ ProcessNumLines
  \/ ops < MaxHostOps /\ ProcessFgets
  \/ ops < MaxHostOps /\ ProcessSwitch

SpecHost == InitSave /\ [][NextHost]_vars

\* C38: process() reads the command byte and the line-count byte n and
\* then stores received lines only into the slots data[0] .. data[n - 1];
\* and when it comes back to read a command byte, the next byte of the
\* stream is the command byte of the next message.
C38_ReceiverInBuffer ==
  /\ \A w \in host.data : 0 <= w.index /\ w.index < host.num_lines
  /\ host.at = "code" /\ usb_serial # << >> => Head(usb_serial) = SAVE

\* The host stays in step with the game's messages.
C38_InStep ==
  host.at = "code" /\ usb_serial # << >> => Head(usb_serial) = SAVE

====
